---- MODULE Spec2Model ----
(***************************************************************************)
(* A model of the quantumsheets engine: the Excel address codec            *)
(* (excel/mod.rs), the nom formula grammar and the hand-written formula    *)
(* parser (formula/parser/mod.rs, formula/ast/mod.rs), the grid store      *)
(* (grid/mod.rs, storage/columnar.rs), the operation registry and the API  *)
(* (operations/mod.rs, api/mod.rs), the natural-language translator        *)
(* (ai/nlp/mod.rs), the data generator (ai/data_generator/mod.rs) and the  *)
(* sums of compute/mod.rs.                                                 *)
(*                                                                         *)
(* Text is a sequence of one-character strings.  A u32 is held as the      *)
(* integer with the same 32 bits: v itself below 2^31 and v - 2^32 from    *)
(* 2^31 on, so that every u32 the code can produce has a value here.       *)
(* Arithmetic on u32 goes through 16-bit halves and reports overflow.      *)
(*                                                                         *)
(* An f64 is held as the decimal that Display prints for it, and the f64   *)
(* operations (parse, add, double, print) are the arms of one evaluator,   *)
(* F64Arith.  Some operators that do not call themselves are declared      *)
(* RECURSIVE: TLC then counts the body once in its coverage statistics     *)
(* and not once per use, which keeps the statistics small.                 *)
(***************************************************************************)
EXTENDS Integers, Sequences, FiniteSets, TLC

VARIABLES
    overflow_checks,  \* build profile: TRUE = overflow panics, FALSE = wraps
    codec_op,         \* the codec call made last: "input" before the first
    codec_cell,       \* the CellRef given to to_excel (or encoded before parse)
    codec_text,       \* the text produced by to_excel / given to parse
    codec_result,     \* the result of CellRef::parse
    codec_printed,    \* the text to_excel produced from the parsed address
    codec_upper,      \* the result of CellRef::parse on the uppercased text
    formula_op,       \* the formula call made last: "input" before the first
    formula_text,     \* the formula text given to the parser
    formula_result,   \* the result of the parser
    formula_printed,  \* the text Formula::to_excel produced from the result
    columns,          \* QuantumGrid.columns: column index -> QuantumColumn
    formulas,         \* QuantumGrid.formulas: CellRef -> Formula
    operations,       \* QuantumAPI.operations: the registry, name -> Operation
    grid_op,          \* the grid call made last: "new" before the first
    grid_ref,         \* the reference text given to it
    grid_result,      \* what it returned
    grid_text,        \* the second text given to it: a formula text or a command
    written,          \* history: CellRef -> the value set_cell stored there last
    stored,           \* history: CellRef -> the formula set_formula stored there last
    writes,           \* history: the number of state-changing calls made
    compute_op,       \* the compute call made last: "input" before the first
    compute_data,     \* the slice given to it
    compute_result,   \* what it returned
    generator_op,     \* the data generator call made last: "input" before the first
    generator_draw,   \* the random draws the call takes
    generator_result  \* what it returned

codec_vars ==
    <<codec_op, codec_cell, codec_text, codec_result, codec_printed, codec_upper>>

formula_vars == <<formula_op, formula_text, formula_result, formula_printed>>

grid_vars ==
    <<columns, formulas, operations, grid_op, grid_ref, grid_text, grid_result, written,
      stored, writes>>

compute_vars == <<compute_op, compute_data, compute_result>>

generator_vars == <<generator_op, generator_draw, generator_result>>

vars ==
    <<overflow_checks, codec_vars, formula_vars, grid_vars, compute_vars, generator_vars>>

\* what a call of one subsystem leaves alone
codec_frame ==
    <<overflow_checks, formula_vars, grid_vars, compute_vars, generator_vars>>

formula_frame ==
    <<overflow_checks, codec_vars, grid_vars, compute_vars, generator_vars>>

grid_frame ==
    <<overflow_checks, codec_vars, formula_vars, compute_vars, generator_vars>>

compute_frame ==
    <<overflow_checks, codec_vars, formula_vars, grid_vars, generator_vars>>

generator_frame ==
    <<overflow_checks, codec_vars, formula_vars, grid_vars, compute_vars>>

----------------------------------------------------------------------------
(* Characters: the printable ASCII table, code 32 to 126; the grave accent  *)
(* (code 96) cannot be written in a string here and has a placeholder.      *)

Ascii ==
    << " ", "!", "\"", "#", "$", "%", "&", "'", "(", ")", "*", "+", ",", "-", ".", "/",
       "0", "1", "2", "3", "4", "5", "6", "7", "8", "9", ":", ";", "<", "=", ">", "?",
       "@", "A", "B", "C", "D", "E", "F", "G", "H", "I", "J", "K", "L", "M", "N", "O",
       "P", "Q", "R", "S", "T", "U", "V", "W", "X", "Y", "Z", "[", "\\", "]", "^", "_",
       "(grave)", "a", "b", "c", "d", "e", "f", "g", "h", "i", "j", "k", "l", "m", "n", "o",
       "p", "q", "r", "s", "t", "u", "v", "w", "x", "y", "z", "{", "|", "}", "~" >>

OrdTable == [c \in {Ascii[i] : i \in 1..Len(Ascii)} |->
                31 + (CHOOSE i \in 1..Len(Ascii) : Ascii[i] = c)]

\* c as u32, for the printable ASCII characters
Ord(c) == OrdTable[c]

Chr(n) == Ascii[n - 31]

is_ascii_alphabetic(c) == Ord(c) \in (65..90) \cup (97..122)

is_ascii_digit(c) == Ord(c) \in 48..57

is_whitespace(c) == c = " "

to_ascii_uppercase(c) == IF Ord(c) \in 97..122 THEN Chr(Ord(c) - 32) ELSE c

RECURSIVE trim_start(_)
trim_start(s) ==
    IF s # <<>> /\ is_whitespace(Head(s)) THEN trim_start(Tail(s)) ELSE s

RECURSIVE trim_end(_)
trim_end(s) ==
    IF s # <<>> /\ is_whitespace(s[Len(s)])
    THEN trim_end(SubSeq(s, 1, Len(s) - 1))
    ELSE s

trim(s) == trim_end(trim_start(s))

----------------------------------------------------------------------------
(* u32 arithmetic *)

U32Halves(x) ==
    IF x >= 0
    THEN [hi |-> x \div 65536, lo |-> x % 65536]
    ELSE [hi |-> (x \div 65536) + 65536, lo |-> x % 65536]

U32FromHalves(hi, lo) ==
    IF hi < 32768 THEN hi * 65536 + lo ELSE (hi - 65536) * 65536 + lo

\* x * k for a small factor k (k <= 26): the wrapped product and whether it overflowed
U32MulSmall(x, k) ==
    LET h  == U32Halves(x)
        lo == h.lo * k
        hi == h.hi * k + (lo \div 65536)
    IN  [val |-> U32FromHalves(hi % 65536, lo % 65536), ovf |-> hi >= 65536]

\* x + y: the wrapped sum and whether it overflowed
U32Add(x, y) ==
    LET hx == U32Halves(x)
        hy == U32Halves(y)
        lo == hx.lo + hy.lo
        hi == hx.hi + hy.hi + (lo \div 65536)
    IN  [val |-> U32FromHalves(hi % 65536, lo % 65536), ovf |-> hi >= 65536]

\* x / d and x % d for a small divisor d
U32DivSmall(x, d) ==
    LET h == U32Halves(x)
    IN  (h.hi \div d) * 65536 + ((((h.hi % d) * 65536) + h.lo) \div d)

U32ModSmall(x, d) ==
    LET h == U32Halves(x)
    IN  (((h.hi % d) * 65536) + h.lo) % d

\* x - 1, wrapping to 2^32 - 1 at 0
U32Dec(x) == IF x = (-2147483647) - 1 THEN 2147483647 ELSE x - 1

\* 26u32.pow(i)
RECURSIVE U32Pow26(_)
U32Pow26(i) ==
    IF i = 0
    THEN [val |-> 1, ovf |-> FALSE]
    ELSE LET p == U32Pow26(i - 1)
             m == U32MulSmall(p.val, 26)
         IN  [val |-> m.val, ovf |-> p.ovf \/ m.ovf]

\* the digits of str::parse::<u32>, after the optional sign
RECURSIVE U32ParseDigits(_, _)
U32ParseDigits(s, acc) ==
    IF s = <<>> THEN [ok |-> TRUE, val |-> acc]
    ELSE IF ~is_ascii_digit(Head(s)) THEN [ok |-> FALSE, val |-> 0]
    ELSE LET m == U32MulSmall(acc, 10)
             a == U32Add(m.val, Ord(Head(s)) - 48)
         IN  IF m.ovf \/ a.ovf
             THEN [ok |-> FALSE, val |-> 0]
             ELSE U32ParseDigits(Tail(s), a.val)

\* str::parse::<u32>: an optional '+', then one or more digits, no overflow
parse_u32(s) ==
    LET body == IF s # <<>> /\ Head(s) = "+" THEN Tail(s) ELSE s
    IN  IF body = <<>> THEN [ok |-> FALSE, val |-> 0] ELSE U32ParseDigits(body, 0)

\* u32 Display: the decimal digits
RECURSIVE U32ToString(_)
U32ToString(x) ==
    IF x \in 0..9
    THEN <<Chr(48 + x)>>
    ELSE U32ToString(U32DivSmall(x, 10)) \o <<Chr(48 + U32ModSmall(x, 10))>>

----------------------------------------------------------------------------
(* excel/mod.rs: CellRef *)

ExcelMaxRow == 1048576

ExcelMaxCol == 16384

Ok(v) == [kind |-> "ok", val |-> v]

\* an Err(String) of the code; e is the fixed part of the message, without the
\* input text that most messages quote
Err(e) == [kind |-> "err", error |-> e]

Panic(why) == [kind |-> "panic", why |-> why]

None == [some |-> FALSE]

Some(v) == [some |-> TRUE, val |-> v]

CellRef_new(row, col) == [row |-> row, col |-> col]

\* the number of leading ASCII letters of t
RECURSIVE LetterRun(_)
LetterRun(t) ==
    IF t # <<>> /\ is_ascii_alphabetic(Head(t)) THEN 1 + LetterRun(Tail(t)) ELSE 0

\* a zero-based letter digit (A=0 ... Z=25), as plain base 26 would have it
LetterDigit_ZeroBased(c) == Ord(c) - Ord("A")

\* A=1 ... Z=26
LetterDigit(c) == Ord(c) - Ord("A") + 1

\* the sum over the reversed letters of digit * 26^i, from position i on
RECURSIVE ColumnSum(_, _, _)
ColumnSum(col_str, i, acc) ==
    IF i = Len(col_str) THEN acc
    ELSE LET digit == LetterDigit(col_str[Len(col_str) - i])
             p     == U32Pow26(i)
             t     == U32MulSmall(p.val, digit)
             s     == U32Add(acc.val, t.val)
         IN  ColumnSum(col_str, i + 1,
                       [val |-> s.val, ovf |-> acc.ovf \/ p.ovf \/ t.ovf \/ s.ovf])

RECURSIVE CellRef_parse(_)
CellRef_parse(excel_ref) ==
    LET t       == trim(excel_ref)
        n       == LetterRun(t)
        col_str == [i \in 1..n |-> to_ascii_uppercase(t[i])]
        row_str == SubSeq(t, n + 1, Len(t))
        col     == ColumnSum(col_str, 0, [val |-> 0, ovf |-> FALSE])
        row     == parse_u32(row_str)
    IN  IF t = <<>> THEN Err("Empty cell reference")
        ELSE IF n = 0 THEN Err("No column letters")
        ELSE IF row_str = <<>> THEN Err("No row number")
        ELSE IF col.ovf /\ overflow_checks THEN Panic("arithmetic overflow")
        ELSE IF ~row.ok THEN Err("Invalid row number")
        ELSE IF row.val = 0 THEN Err("Row number must be at least 1")
        ELSE Ok(CellRef_new(row.val, col.val))

\* column letters without the decrement: plain base 26 with a zero digit
RECURSIVE ColumnLetters_NoDecrement(_)
ColumnLetters_NoDecrement(col) ==
    IF col = 0 THEN <<>>
    ELSE ColumnLetters_NoDecrement(U32DivSmall(col, 26))
             \o <<Chr(Ord("A") + U32ModSmall(col, 26))>>

\* the column letters of to_excel
RECURSIVE ColumnLetters(_)
ColumnLetters(col) ==
    IF col = 0 THEN <<>>
    ELSE LET c == U32Dec(col)
         IN  ColumnLetters(U32DivSmall(c, 26)) \o <<Chr(Ord("A") + U32ModSmall(c, 26))>>

CellRef_to_excel(cell) == ColumnLetters(cell.col) \o U32ToString(cell.row)

CellRef_is_valid(cell) ==
    /\ cell.row >= 1 /\ cell.row <= ExcelMaxRow
    /\ cell.col >= 1 /\ cell.col <= ExcelMaxCol

----------------------------------------------------------------------------
(* Natural numbers of any size, for the arithmetic of f64: the sequence of  *)
(* the decimal digits, most significant first, <<>> for zero.               *)
(*                                                                          *)
(* The operations on these numbers and on f64 values are evaluated by one   *)
(* evaluator, F64Arith, which takes an operation with its operands as a     *)
(* record and gives its result: the operands of an operation are values by  *)
(* the time it starts, however long the computation that made them.  Each   *)
(* operation X is the call of the evaluator (X) and what it computes        *)
(* (X_impl).                                                                *)

RECURSIVE F64Arith(_)

\* the first index in lo..hi with a digit of a that is not 0, hi + 1 if none
BigFirst(a, lo, hi) ==
    CHOOSE i \in lo..(hi + 1) :
        /\ i = hi + 1 \/ a[i] # 0
        /\ \A j \in lo..(i - 1) : a[j] = 0

\* the last index in lo..hi with a digit of a that is not 0, lo - 1 if none
BigLast(a, lo, hi) ==
    CHOOSE i \in (lo - 1)..hi :
        /\ i = lo - 1 \/ a[i] # 0
        /\ \A j \in (i + 1)..hi : a[j] = 0

\* a without leading zeros
BigTrim(a) == SubSeq(a, BigFirst(a, 1, Len(a)), Len(a))

\* a followed by k zeros: a * 10^k
BigShift(a, k) ==
    IF a = <<>> THEN <<>> ELSE [i \in 1..(Len(a) + k) |-> IF i <= Len(a) THEN a[i] ELSE 0]

\* a without its trailing zeros
BigSignificant(a) == SubSeq(a, 1, BigLast(a, 1, Len(a)))

\* the first index where a and b of one length differ, Len(a) + 1 if none
BigDiffer(a, b) ==
    CHOOSE i \in 1..(Len(a) + 1) :
        /\ i = Len(a) + 1 \/ a[i] # b[i]
        /\ \A j \in 1..(i - 1) : a[j] = b[j]

\* -1, 0 or 1 as a < b, a = b or a > b
BigCmp(a, b) == F64Arith([op |-> "BigCmp", a |-> a, b |-> b])

BigCmp_impl(a, b) ==
    IF Len(a) < Len(b) THEN -1
    ELSE IF Len(a) > Len(b) THEN 1
    ELSE IF a = b THEN 0
    ELSE IF a[BigDiffer(a, b)] < b[BigDiffer(a, b)] THEN -1
    ELSE 1

\* the digits of a small number
RECURSIVE NatDigits(_)
NatDigits(n) == IF n = 0 THEN <<>> ELSE NatDigits(n \div 10) \o <<n % 10>>

\* the carries of the positions lo .. hi of x taken from right to left, carry
\* the carry into hi: the digits left in place and the carry out of lo.  The
\* range is halved: the right half is done first and its carry goes into the
\* left half.
BigCarry(x, lo, hi, carry) ==
    F64Arith([op |-> "BigCarry", x |-> x, lo |-> lo, hi |-> hi, carry |-> carry])

BigCarryLeft(x, lo, hi, right) ==
    F64Arith([op |-> "BigCarryLeft", x |-> x, lo |-> lo, hi |-> hi, right |-> right])

BigCarryJoin(left, right) ==
    F64Arith([op |-> "BigCarryJoin", left |-> left, right |-> right])

BigCarry_impl(x, lo, hi, carry) ==
    IF lo > hi THEN [digits |-> <<>>, carry |-> carry]
    ELSE IF lo = hi
        THEN [digits |-> <<(x[lo] + carry) % 10>>, carry |-> (x[lo] + carry) \div 10]
    ELSE BigCarryLeft(x, lo, (lo + hi) \div 2,
                      BigCarry(x, (lo + hi) \div 2 + 1, hi, carry))

BigCarryLeft_impl(x, lo, hi, right) ==
    BigCarryJoin(BigCarry(x, lo, hi, right.carry), right)

BigCarryJoin_impl(left, right) ==
    [digits |-> left.digits \o right.digits, carry |-> left.carry]

\* the number of the positions x with the carry c added at the right
BigCarried(x, c) == F64Arith([op |-> "BigCarried", x |-> x, c |-> c])

BigNumber(r) == F64Arith([op |-> "BigNumber", r |-> r])

BigCarried_impl(x, c) == BigNumber(BigCarry(x, 1, Len(x), c))

BigNumber_impl(r) == BigTrim(NatDigits(r.carry) \o r.digits)

BigAdd(a, b) == F64Arith([op |-> "BigAdd", a |-> a, b |-> b])

BigAdd_impl(a, b) ==
    LET n == IF Len(a) >= Len(b) THEN Len(a) ELSE Len(b)
    IN  BigCarried([i \in 1..n |-> (IF i <= n - Len(a) THEN 0 ELSE a[i - (n - Len(a))])
                                  + (IF i <= n - Len(b) THEN 0 ELSE b[i - (n - Len(b))])], 0)

\* a - b for a >= b
BigSub(a, b) == F64Arith([op |-> "BigSub", a |-> a, b |-> b])

BigSub_impl(a, b) ==
    BigCarried([i \in 1..Len(a) |->
                   a[i] - (IF i <= Len(a) - Len(b) THEN 0 ELSE b[i - (Len(a) - Len(b))])], 0)

\* a * m + c for small m and c
BigMulAdd(a, m, c) == F64Arith([op |-> "BigMulAdd", a |-> a, m |-> m, c |-> c])

BigMulAdd_impl(a, m, c) == BigCarried([i \in 1..Len(a) |-> a[i] * m], c)

BigMulSmall(a, m) == BigMulAdd(a, m, 0)

\* a * base^k for base 2 or 5
BigMulPow(a, base, k) == F64Arith([op |-> "BigMulPow", a |-> a, base |-> base, k |-> k])

BigMulPow_impl(a, base, k) ==
    IF k <= 0 \/ a = <<>> THEN a
    ELSE IF k <= 8 THEN BigMulSmall(a, base ^ k)
    ELSE BigMulPow(BigMulPow(a, base, k \div 2), base, k - (k \div 2))

\* a as an integer, for a of at most nine digits
RECURSIVE BigValueFrom(_, _, _)
BigValueFrom(a, i, acc) ==
    IF i > Len(a) THEN acc ELSE BigValueFrom(a, i + 1, acc * 10 + a[i])

BigValue(a) == BigValueFrom(a, 1, 0)

\* the sum of two signed magnitudes of the same unit
SignedSum(a_neg, a, b_neg, b) ==
    F64Arith([op |-> "SignedSum", a_neg |-> a_neg, a |-> a, b_neg |-> b_neg, b |-> b])

SignedSum_impl(a_neg, a, b_neg, b) ==
    IF a_neg = b_neg THEN [neg |-> a_neg, mag |-> BigAdd(a, b)]
    ELSE IF BigCmp(a, b) > 0 THEN [neg |-> a_neg, mag |-> BigSub(a, b)]
    ELSE IF BigCmp(a, b) < 0 THEN [neg |-> b_neg, mag |-> BigSub(b, a)]
    ELSE [neg |-> FALSE, mag |-> <<>>]

----------------------------------------------------------------------------
(* f64 values.  A finite f64 is held as its sign and the decimal that f64's *)
(* Display prints for it (the shortest decimal that reads back as the same  *)
(* f64): the digits of that decimal without the point (mant, <<>> for zero) *)
(* and the number of its fractional digits (scale), with no trailing zero   *)
(* in the fraction.  Infinities and NaN are special values.  F64Nearest is  *)
(* the rounding of IEEE 754 binary64 (53 bits, ties to even, subnormals,    *)
(* overflow to infinity) and F64Shortest the digit generation of Display.   *)
(* A decimal of at most 15 significant digits in the normal range reads     *)
(* back as itself, so such a text is its own value without any rounding.    *)

F64(neg, mant, scale) == [neg |-> neg, mant |-> mant, scale |-> scale]

F64Zero == F64(FALSE, <<>>, 0)

F64Special(neg, name) == [neg |-> neg, special |-> name]

\* 2^52 and 2^53
Big2Pow52 == <<4, 5, 0, 3, 5, 9, 9, 6, 2, 7, 3, 7, 0, 4, 9, 6>>

Big2Pow53 == <<9, 0, 0, 7, 1, 9, 9, 2, 5, 4, 7, 4, 0, 9, 9, 2>>

\* no trailing zero in the fraction
F64Normalize(v) ==
    LET last  == BigLast(v.mant, 1, Len(v.mant))
        zeros == IF Len(v.mant) - last < v.scale THEN Len(v.mant) - last ELSE v.scale
    IN  IF last = 0 THEN F64(v.neg, <<>>, 0)
        ELSE F64(v.neg, SubSeq(v.mant, 1, Len(v.mant) - zeros), v.scale - zeros)

\* N / D brought between 1 and 2 by powers of two: D <= N < 2D afterwards,
\* e the power taken out (N / D = N' / D' * 2^e)
BinaryExponent(N, D, e) == F64Arith([op |-> "BinaryExponent", N |-> N, D |-> D, e |-> e])

BinaryExponent_impl(N, D, e) ==
    IF BigCmp(N, D) < 0 THEN BinaryExponent(BigMulSmall(N, 2), D, e - 1)
    ELSE IF BigCmp(N, BigMulSmall(D, 2)) < 0 THEN [N |-> N, D |-> D, e |-> e]
    ELSE BinaryExponent(N, BigMulSmall(D, 2), e + 1)

\* the same from a power of two that the lengths of N and D give: ten to the
\* d is above two to the 3.321 d, and below two to the 3.322 d
BinaryScale(N, D) == F64Arith([op |-> "BinaryScale", N |-> N, D |-> D])

BinaryScale_impl(N, D) ==
    LET up   == ((Len(N) - Len(D) - 1) * 3321) \div 1000
        down == ((Len(D) - Len(N) - 1) * 3321) \div 1000
    IN  IF Len(N) > Len(D) + 1 THEN BinaryExponent(N, BigMulPow(D, 2, up), up)
        ELSE IF Len(D) > Len(N) + 1 THEN BinaryExponent(BigMulPow(N, 2, down), D, 0 - down)
        ELSE BinaryExponent(N, D, 0)

\* the next n binary digits of R / D (R < 2D) added to q, and the rest
\* doubled: m = [q, R]; the digits are taken half by half
MantissaBits(m, D, n) == F64Arith([op |-> "MantissaBits", m |-> m, D |-> D, n |-> n])

MantissaBits_impl(m, D, n) ==
    IF n <= 0 THEN m
    ELSE IF n > 1 THEN MantissaBits(MantissaBits(m, D, n \div 2), D, n - (n \div 2))
    ELSE IF BigCmp(m.R, D) >= 0
    THEN [q |-> BigMulAdd(m.q, 2, 1), R |-> BigMulSmall(BigSub(m.R, D), 2)]
    ELSE [q |-> BigMulSmall(m.q, 2), R |-> BigMulSmall(m.R, 2)]

\* the bits m = [q, R] rounded to the nearest, ties to even: q * 2^p
RoundedBits(m, D, p) == F64Arith([op |-> "RoundedBits", m |-> m, D |-> D, p |-> p])

RoundedBits_impl(m, D, p) ==
    IF BigCmp(m.R, D) > 0
       \/ (BigCmp(m.R, D) = 0 /\ m.q # <<>> /\ m.q[Len(m.q)] % 2 = 1)
    THEN IF BigAdd(m.q, <<1>>) = Big2Pow53 THEN [q |-> Big2Pow52, p |-> p + 1]
         ELSE [q |-> BigAdd(m.q, <<1>>), p |-> p]
    ELSE [q |-> m.q, p |-> p]

\* the mantissa of s = [N, D, e]: 53 bits for a normal number, fewer for a
\* subnormal one
MantissaRounded(s) == F64Arith([op |-> "MantissaRounded", s |-> s])

MantissaRounded_impl(s) ==
    LET bits == IF s.e >= -1022 THEN 53 ELSE s.e + 1075
    IN  IF bits < 0 THEN [q |-> <<>>, p |-> 0]
        ELSE RoundedBits(MantissaBits([q |-> <<>>, R |-> s.N], s.D, bits),
                         s.D, s.e - bits + 1)

\* the f64 nearest to N / D (N > 0), ties to even, as q * 2^p: q has 53 bits
\* for a normal number and fewer for a subnormal one (p = -1074); q = <<>>
\* when N / D rounds to zero; p > 971 when it is beyond the largest f64
F64Nearest(N, D) == F64Arith([op |-> "F64Nearest", N |-> N, D |-> D])

F64Nearest_impl(N, D) == MantissaRounded(BinaryScale(N, D))

\* the choice between the decimals f and c of n digits below and above value:
\* one that lies between low and high (the bounds count when even), the
\* nearer to value where both do, <<>> where none does
ShortestPick(range, n, f, c) ==
    F64Arith([op |-> "ShortestPick", range |-> range, n |-> n, f |-> f, c |-> c])

ShortestPick_impl(range, n, f, c) ==
    LET fits_f == BigCmp(range.low, f) < 0 \/ (BigCmp(range.low, f) = 0 /\ range.even)
        fits_c == BigCmp(c, range.high) < 0 \/ (BigCmp(c, range.high) = 0 /\ range.even)
        nearer == BigCmp(BigSub(range.value, f), BigSub(c, range.value))
    IN  IF fits_f /\ fits_c
        THEN IF nearer < 0 \/ (nearer = 0 /\ f[n] % 2 = 0) THEN f ELSE c
        ELSE IF fits_f THEN f
        ELSE IF fits_c THEN c
        ELSE <<>>

\* the decimal of n digits in the range [low, value, high, even], <<>> where
\* none is; all are whole numbers of the same unit
ShortestOf(range, n) == F64Arith([op |-> "ShortestOf", range |-> range, n |-> n])

ShortestFloor(value, n) == [i \in 1..Len(value) |-> IF i <= n THEN value[i] ELSE 0]

ShortestOf_impl(range, n) ==
    IF n >= Len(range.value) THEN range.value
    ELSE ShortestPick(range, n, ShortestFloor(range.value, n),
                      BigAdd(ShortestFloor(range.value, n),
                             BigShift(<<1>>, Len(range.value) - n)))

\* the digits of the shortest decimal of the range, from n digits on
ShortestFrom(range, n) == F64Arith([op |-> "ShortestFrom", range |-> range, n |-> n])

ShortestFrom_impl(range, n) ==
    IF ShortestOf(range, n) # <<>> THEN ShortestOf(range, n)
    ELSE ShortestFrom(range, n + 1)

\* x quarters of 2^p as a whole number of the unit of Display: 2^-2 for
\* p >= 2, 10^(p - 2) below
F64Unit(x, p) == IF p >= 2 THEN BigMulPow(x, 2, p - 2) ELSE BigMulPow(x, 5, 2 - p)

\* f64 Display of q * 2^p (flt2dec, shortest mode): the decimal of the fewest
\* digits that lies nearer to q * 2^p than to the f64 below and above it
F64Shortest(q, p) == F64Arith([op |-> "F64Shortest", q |-> q, p |-> p])

F64Shortest_impl(q, p) ==
    [digits |-> ShortestFrom(
                    [low   |-> F64Unit(BigSub(BigMulSmall(q, 4),
                                              IF q = Big2Pow52 /\ p > -1074
                                              THEN <<1>> ELSE <<2>>), p),
                     value |-> F64Unit(BigMulSmall(q, 4), p),
                     high  |-> F64Unit(BigMulAdd(q, 4, 2), p),
                     even  |-> q[Len(q)] % 2 = 0], 1),
     scale  |-> IF p >= 2 THEN 0 ELSE 2 - p]

\* the f64 value of the bits b = [q, p] with the sign given
F64Value(neg, b) == F64Arith([op |-> "F64Value", neg |-> neg, b |-> b])

F64Text(neg, d) == F64Arith([op |-> "F64Text", neg |-> neg, d |-> d])

F64Value_impl(neg, b) ==
    IF b.q = <<>> THEN F64(neg, <<>>, 0)
    ELSE IF b.p > 971 THEN F64Special(neg, "inf")
    ELSE F64Text(neg, F64Shortest(b.q, b.p))

F64Text_impl(neg, d) == F64Normalize(F64(neg, d.digits, d.scale))

\* the f64 nearest to N / D with the sign given
F64Round(neg, N, D) == F64Arith([op |-> "F64Round", neg |-> neg, N |-> N, D |-> D])

F64Round_impl(neg, N, D) ==
    IF N = <<>> THEN F64(neg, <<>>, 0) ELSE F64Value(neg, F64Nearest(N, D))

\* the bits of a finite f64: q * 2^p
F64Binary(v) ==
    IF v.mant = <<>> THEN [q |-> <<>>, p |-> 0]
    ELSE F64Nearest(v.mant, BigShift(<<1>>, v.scale))

\* a decimal that is its own f64 text: at most 15 significant digits, in the
\* normal range
F64IsShort(mant, scale) ==
    /\ Len(BigSignificant(mant)) <= 15
    /\ Len(mant) - scale <= 300
    /\ Len(mant) - scale >= -300

\* the f64 of the decimal mant * 10^exp, mant without trailing zeros
F64Decimal(neg, mant, exp) ==
    F64Arith([op |-> "F64Decimal", neg |-> neg, mant |-> mant, exp |-> exp])

F64Decimal_impl(neg, mant, exp) ==
    IF mant = <<>> THEN F64(neg, <<>>, 0)
    ELSE IF Len(mant) + exp > 310 THEN F64Special(neg, "inf")
    ELSE IF Len(mant) + exp < -330 THEN F64(neg, <<>>, 0)
    ELSE IF exp >= 0
        THEN IF F64IsShort(mant, 0 - exp) THEN F64(neg, BigShift(mant, exp), 0)
             ELSE F64Round(neg, BigShift(mant, exp), <<1>>)
    ELSE IF F64IsShort(mant, 0 - exp) THEN F64Normalize(F64(neg, mant, 0 - exp))
    ELSE F64Round(neg, mant, BigShift(<<1>>, 0 - exp))

\* the f64 of the decimal mant * 10^exp: the trailing zeros of mant go into the exponent
F64FromDecimal(neg, mant, exp) ==
    F64Arith([op |-> "F64FromDecimal", neg |-> neg, mant |-> mant, exp |-> exp])

F64FromDecimal_impl(neg, mant, exp) ==
    F64Decimal(neg, BigSignificant(mant), exp + (Len(mant) - BigLast(mant, 1, Len(mant))))

\* the f64 nearest to sum.mag * 2^p with the sign sum.neg
F64Scaled(sum, p) == F64Arith([op |-> "F64Scaled", sum |-> sum, p |-> p])

F64Scaled_impl(sum, p) ==
    IF p >= 0 THEN F64Round(sum.neg, BigMulPow(sum.mag, 2, p), <<1>>)
    ELSE F64Round(sum.neg, sum.mag, BigMulPow(<<1>>, 2, 0 - p))

\* the sum of the bits x and y = [q, p] with their signs: exact in the unit
\* of the smaller p, then rounded
F64AddBinary(a_neg, x, b_neg, y) ==
    F64Arith([op |-> "F64AddBinary", a_neg |-> a_neg, x |-> x, b_neg |-> b_neg, y |-> y])

F64AddBinary_impl(a_neg, x, b_neg, y) ==
    LET p == IF x.p <= y.p THEN x.p ELSE y.p
    IN  F64Scaled(SignedSum(a_neg, BigMulPow(x.q, 2, x.p - p),
                            b_neg, BigMulPow(y.q, 2, y.p - p)), p)

\* a + b on f64 (total += num): the exact sum of the two binary values,
\* rounded to the nearest f64; whole numbers of at most 15 digits add without
\* rounding
F64Add(a, b) == F64Arith([op |-> "F64Add", a |-> a, b |-> b])

F64Whole(sum) == F64Arith([op |-> "F64Whole", sum |-> sum])

F64Whole_impl(sum) == F64(sum.neg, sum.mag, 0)

F64Add_impl(a, b) ==
    IF "special" \in DOMAIN a /\ "special" \in DOMAIN b
        THEN IF a.special = "inf" /\ b.special = "inf" /\ a.neg = b.neg THEN a
             ELSE F64Special(FALSE, "nan")
    ELSE IF "special" \in DOMAIN a THEN a
    ELSE IF "special" \in DOMAIN b THEN b
    ELSE IF a.mant = <<>> /\ b.mant = <<>> THEN F64(a.neg /\ b.neg, <<>>, 0)
    ELSE IF a.scale = 0 /\ b.scale = 0 /\ Len(a.mant) <= 15 /\ Len(b.mant) <= 15
        THEN F64Whole(SignedSum(a.neg, a.mant, b.neg, b.mant))
    ELSE F64AddBinary(a.neg, F64Binary(a), b.neg, F64Binary(b))

\* num * 2.0: exact but for the overflow to infinity; a decimal of at most 15
\* digits doubles as a decimal while the double has at most 15 digits
F64Double(v) == F64Arith([op |-> "F64Double", v |-> v])

F64Doubled(neg, x) == F64Arith([op |-> "F64Doubled", neg |-> neg, x |-> x])

F64Doubled_impl(neg, x) == F64Scaled([neg |-> neg, mag |-> x.q], x.p + 1)

F64Double_impl(v) ==
    IF "special" \in DOMAIN v \/ v.mant = <<>> THEN v
    ELSE IF F64IsShort(BigMulSmall(v.mant, 2), v.scale)
        THEN F64Normalize(F64(v.neg, BigMulSmall(v.mant, 2), v.scale))
    ELSE F64Doubled(v.neg, F64Binary(v))

\* the evaluator: the result of the operation c
F64Arith(c) ==
    CASE c.op = "BigCarry" -> BigCarry_impl(c.x, c.lo, c.hi, c.carry)
      [] c.op = "BigCarryLeft" -> BigCarryLeft_impl(c.x, c.lo, c.hi, c.right)
      [] c.op = "BigCarryJoin" -> BigCarryJoin_impl(c.left, c.right)
      [] c.op = "BigCarried" -> BigCarried_impl(c.x, c.c)
      [] c.op = "BigNumber" -> BigNumber_impl(c.r)
      [] c.op = "BigCmp" -> BigCmp_impl(c.a, c.b)
      [] c.op = "BigAdd" -> BigAdd_impl(c.a, c.b)
      [] c.op = "BigSub" -> BigSub_impl(c.a, c.b)
      [] c.op = "BigMulAdd" -> BigMulAdd_impl(c.a, c.m, c.c)
      [] c.op = "BigMulPow" -> BigMulPow_impl(c.a, c.base, c.k)
      [] c.op = "SignedSum" -> SignedSum_impl(c.a_neg, c.a, c.b_neg, c.b)
      [] c.op = "BinaryExponent" -> BinaryExponent_impl(c.N, c.D, c.e)
      [] c.op = "BinaryScale" -> BinaryScale_impl(c.N, c.D)
      [] c.op = "MantissaBits" -> MantissaBits_impl(c.m, c.D, c.n)
      [] c.op = "RoundedBits" -> RoundedBits_impl(c.m, c.D, c.p)
      [] c.op = "MantissaRounded" -> MantissaRounded_impl(c.s)
      [] c.op = "F64Nearest" -> F64Nearest_impl(c.N, c.D)
      [] c.op = "ShortestPick" -> ShortestPick_impl(c.range, c.n, c.f, c.c)
      [] c.op = "ShortestOf" -> ShortestOf_impl(c.range, c.n)
      [] c.op = "ShortestFrom" -> ShortestFrom_impl(c.range, c.n)
      [] c.op = "F64Shortest" -> F64Shortest_impl(c.q, c.p)
      [] c.op = "F64Value" -> F64Value_impl(c.neg, c.b)
      [] c.op = "F64Text" -> F64Text_impl(c.neg, c.d)
      [] c.op = "F64Round" -> F64Round_impl(c.neg, c.N, c.D)
      [] c.op = "F64FromDecimal" -> F64FromDecimal_impl(c.neg, c.mant, c.exp)
      [] c.op = "F64Decimal" -> F64Decimal_impl(c.neg, c.mant, c.exp)
      [] c.op = "F64Scaled" -> F64Scaled_impl(c.sum, c.p)
      [] c.op = "F64AddBinary" -> F64AddBinary_impl(c.a_neg, c.x, c.b_neg, c.y)
      [] c.op = "F64Whole" -> F64Whole_impl(c.sum)
      [] c.op = "F64Add" -> F64Add_impl(c.a, c.b)
      [] c.op = "F64Doubled" -> F64Doubled_impl(c.neg, c.x)
      [] c.op = "F64Double" -> F64Double_impl(c.v)

\* the number of leading ASCII digits of s
DigitRun(s) ==
    CHOOSE n \in 0..Len(s) :
        /\ n = Len(s) \/ ~is_ascii_digit(s[n + 1])
        /\ \A j \in 1..n : is_ascii_digit(s[j])

\* s without the zeros it starts with
StripLeadingZeros(s) ==
    SubSeq(s, (CHOOSE n \in 0..Len(s) :
                  /\ n = Len(s) \/ s[n + 1] # "0"
                  /\ \A j \in 1..n : s[j] = "0") + 1, Len(s))

RECURSIVE DigitsValue(_, _)
DigitsValue(s, acc) ==
    IF s = <<>> THEN acc ELSE DigitsValue(Tail(s), acc * 10 + (Ord(Head(s)) - 48))

\* the digits of a text of ASCII digits
DigitsOf(s) == BigTrim([i \in 1..Len(s) |-> Ord(s[i]) - 48])

to_uppercase(s) == [i \in 1..Len(s) |-> to_ascii_uppercase(s[i])]

RECURSIVE ExponentDigits(_, _)
\* the digit loop of the exponent in core's dec2flt (parse_scientific): a digit
\* is taken in only while the exponent is below 0x10000, the later digits are
\* read and dropped
ExponentDigits(s, exponent) ==
    IF s = <<>> THEN exponent
    ELSE ExponentDigits(Tail(s), IF exponent < 65536
                                 THEN 10 * exponent + (Ord(Head(s)) - 48)
                                 ELSE exponent)

\* the exponent of a decimal text: e or E, an optional sign, one digit or
\* more.  Leading zeros leave the exponent at 0, and after six more digits it
\* is 100000 or more, so the loop is run on the first six digits after the zeros
ParseExponent(s) ==
    LET signed == Len(s) >= 2 /\ s[2] \in {"+", "-"}
        digits == SubSeq(s, IF signed THEN 3 ELSE 2, Len(s))
        short  == StripLeadingZeros(digits)
        size   == ExponentDigits(SubSeq(short, 1, IF Len(short) > 6 THEN 6 ELSE Len(short)), 0)
    IN  IF s = <<>> THEN [ok |-> TRUE, val |-> 0]
        ELSE IF s[1] \notin {"e", "E"} \/ digits = <<>> \/ DigitRun(digits) # Len(digits)
            THEN [ok |-> FALSE, val |-> 0]
        ELSE [ok |-> TRUE, val |-> IF signed /\ s[2] = "-" THEN 0 - size ELSE size]

RECURSIVE parse_f64(_)
\* str::parse::<f64>: optional sign, then inf / infinity / nan in any case,
\* or digits with an optional '.' and fraction (at least one digit in all)
\* and an optional exponent
parse_f64(s) ==
    LET signed == s # <<>> /\ Head(s) \in {"+", "-"}
        neg    == s # <<>> /\ Head(s) = "-"
        body   == IF signed THEN Tail(s) ELSE s
        ni     == DigitRun(body)
        after  == SubSeq(body, ni + 1, Len(body))
        dotted == after # <<>> /\ Head(after) = "."
        frac   == IF dotted THEN Tail(after) ELSE after
        nf     == IF dotted THEN DigitRun(frac) ELSE 0
        Decimal(exp) ==
            IF ~exp.ok THEN [ok |-> FALSE]
            ELSE [ok |-> TRUE,
                  val |-> F64FromDecimal(neg,
                              DigitsOf(SubSeq(body, 1, ni) \o SubSeq(frac, 1, nf)),
                              exp.val - nf)]
    IN  IF to_uppercase(body) \in {<<"I", "N", "F">>, <<"I", "N", "F", "I", "N", "I", "T", "Y">>}
            THEN [ok |-> TRUE, val |-> F64Special(neg, "inf")]
        ELSE IF to_uppercase(body) = <<"N", "A", "N">>
            THEN [ok |-> TRUE, val |-> F64Special(FALSE, "nan")]
        ELSE IF ni + nf = 0 THEN [ok |-> FALSE]
        ELSE Decimal(ParseExponent(SubSeq(frac, nf + 1, Len(frac))))

RECURSIVE NatToString(_)
NatToString(n) ==
    IF n < 10 THEN <<Chr(48 + n)>> ELSE NatToString(n \div 10) \o <<Chr(48 + (n % 10))>>

\* s with zeros in front up to the width
ZeroPad(s, width) ==
    IF Len(s) >= width THEN s
    ELSE [i \in 1..width |-> IF i <= width - Len(s) THEN "0" ELSE s[i - (width - Len(s))]]

RECURSIVE F64ToString(_)
\* f64 Display (n.to_string()): the digits with the point put in, without an
\* exponent
F64ToString(v) ==
    LET sign   == IF v.neg THEN <<"-">> ELSE <<>>
        text   == [i \in 1..Len(v.mant) |-> Chr(48 + v.mant[i])]
        whole  == Len(v.mant) - v.scale
    IN  IF "special" \in DOMAIN v
        THEN IF v.special = "nan" THEN <<"N", "a", "N">> ELSE sign \o <<"i", "n", "f">>
        ELSE IF v.mant = <<>> THEN sign \o <<"0">>
        ELSE IF v.scale = 0 THEN sign \o text
        ELSE sign \o (IF whole <= 0 THEN <<"0">> ELSE SubSeq(text, 1, whole))
                  \o <<".">>
                  \o (IF whole <= 0 THEN ZeroPad(text, v.scale)
                      ELSE SubSeq(text, whole + 1, Len(text)))

----------------------------------------------------------------------------
(* formula/ast/mod.rs: Expr, Formula *)

Number(n) == [tag |-> "Number", n |-> n]

CellRefExpr(cell) == [tag |-> "CellRef", cell |-> cell]

Range(start, end) == [tag |-> "Range", start |-> start, end |-> end]

Binary(left, op, right) == [tag |-> "Binary", left |-> left, op |-> op, right |-> right]

Function(name, args) == [tag |-> "Function", name |-> name, args |-> args]

Group(inner) == [tag |-> "Group", inner |-> inner]

BinaryOpText(op) ==
    CASE op = "Add" -> "+"
      [] op = "Subtract" -> "-"
      [] op = "Multiply" -> "*"
      [] op = "Divide" -> "/"
      [] op = "Power" -> "^"

RECURSIVE expr_to_string(_)
RECURSIVE JoinArgs(_)
JoinArgs(args) ==
    IF args = <<>> THEN <<>>
    ELSE IF Len(args) = 1 THEN expr_to_string(args[1])
    ELSE expr_to_string(args[1]) \o <<",", " ">> \o JoinArgs(Tail(args))

expr_to_string(expr) ==
    CASE expr.tag = "Number" -> F64ToString(expr.n)
      [] expr.tag = "CellRef" -> CellRef_to_excel(expr.cell)
      [] expr.tag = "Range" ->
            CellRef_to_excel(expr.start) \o <<":">> \o CellRef_to_excel(expr.end)
      [] expr.tag = "Binary" ->
            expr_to_string(expr.left) \o <<" ", BinaryOpText(expr.op), " ">>
                \o expr_to_string(expr.right)
      [] expr.tag = "Function" -> expr.name \o <<"(">> \o JoinArgs(expr.args) \o <<")">>
      [] expr.tag = "Group" -> <<"(">> \o expr_to_string(expr.inner) \o <<")">>

\* Formula::to_excel; a Formula is held as its expression
Formula_to_excel(formula) == <<"=">> \o expr_to_string(formula)

----------------------------------------------------------------------------
(* formula/parser/mod.rs: the nom grammar.  A parser result is "ok" with the *)
(* remaining input and the value, "err" (nom's recoverable Err::Error), or   *)
(* "panic" when CellRef::parse aborted inside it.                            *)

NomOk(rest, val) == [st |-> "ok", rest |-> rest, val |-> val]

NomErr == [st |-> "err"]

NomPanic == [st |-> "panic"]

multispace0(input) == trim_start(input)

\* recognize(opt('-'), digit1, opt('.' digit1)) mapped to Expr::Number
parse_number(input) ==
    LET neg     == input # <<>> /\ Head(input) = "-"
        body    == IF neg THEN Tail(input) ELSE input
        ni      == DigitRun(body)
        after   == SubSeq(body, ni + 1, Len(body))
        nf      == IF after # <<>> /\ Head(after) = "." THEN DigitRun(Tail(after)) ELSE 0
        used    == (IF neg THEN 1 ELSE 0) + ni + (IF nf > 0 THEN 1 + nf ELSE 0)
        parsed  == parse_f64(SubSeq(input, 1, used))
    IN  IF ni = 0 THEN NomErr
        ELSE NomOk(SubSeq(input, used + 1, Len(input)),
                   Number(IF parsed.ok THEN parsed.val ELSE F64Zero))

\* nom's alt: the next alternative is tried on Err::Error only
Alt(r, otherwise) == IF r.st # "err" THEN r ELSE otherwise

\* recognize(many1(letter), digit1) mapped through CellRef::parse, with
\* Number(0.0) when CellRef::parse fails
parse_cell_reference(input) ==
    LET nl == LetterRun(input)
        nd == DigitRun(SubSeq(input, nl + 1, Len(input)))
        Mapped(cell) ==
            IF cell.kind = "panic" THEN NomPanic
            ELSE NomOk(SubSeq(input, nl + nd + 1, Len(input)),
                       IF cell.kind = "ok" THEN CellRefExpr(cell.val) ELSE Number(F64Zero))
    IN  IF nl = 0 \/ nd = 0 THEN NomErr
        ELSE Mapped(CellRef_parse(SubSeq(input, 1, nl + nd)))

RECURSIVE parse_expression(_)
RECURSIVE parse_term(_)
RECURSIVE parse_factor(_)
RECURSIVE parse_function_call(_)
RECURSIVE parse_parenthesized(_)
RECURSIVE ExpressionOperations(_, _, _)
RECURSIVE TermOperations(_, _, _)
RECURSIVE ArgumentsRest(_, _)

\* one element of parse_expression's many1: spaces, '+' or '-', spaces, a term
AdditiveStep(input) ==
    LET i1 == multispace0(input)
        Operation(t) ==
            IF t.st # "ok" THEN t
            ELSE NomOk(t.rest,
                       [op |-> IF Head(i1) = "+" THEN "Add" ELSE "Subtract",
                        operand |-> t.val])
    IN  IF i1 = <<>> \/ Head(i1) \notin {"+", "-"} THEN NomErr
        ELSE Operation(parse_term(multispace0(Tail(i1))))

\* many1 over AdditiveStep folded into a left-leaning tree; count is the number
\* of elements taken so far, and many1 fails when the first one fails
ExpressionOperations(input, expr, count) ==
    LET Fold(s) ==
            IF s.st = "panic" THEN NomPanic
            ELSE IF s.st = "err" THEN (IF count = 0 THEN NomErr ELSE NomOk(input, expr))
            ELSE ExpressionOperations(s.rest, Binary(expr, s.val.op, s.val.operand),
                                      count + 1)
    IN  Fold(AdditiveStep(input))

parse_expression(input) ==
    LET Operations(first_term) ==
            IF first_term.st # "ok" THEN first_term
            ELSE ExpressionOperations(first_term.rest, first_term.val, 0)
    IN  Operations(parse_term(input))

\* one element of parse_term's many1: spaces, '*' or '/', spaces, a factor
MultiplicativeStep(input) ==
    LET i1 == multispace0(input)
        Operation(f) ==
            IF f.st # "ok" THEN f
            ELSE NomOk(f.rest,
                       [op |-> IF Head(i1) = "*" THEN "Multiply" ELSE "Divide",
                        operand |-> f.val])
    IN  IF i1 = <<>> \/ Head(i1) \notin {"*", "/"} THEN NomErr
        ELSE Operation(parse_factor(multispace0(Tail(i1))))

TermOperations(input, expr, count) ==
    LET Fold(s) ==
            IF s.st = "panic" THEN NomPanic
            ELSE IF s.st = "err" THEN (IF count = 0 THEN NomErr ELSE NomOk(input, expr))
            ELSE TermOperations(s.rest, Binary(expr, s.val.op, s.val.operand), count + 1)
    IN  Fold(MultiplicativeStep(input))

parse_term(input) ==
    LET Operations(first_factor) ==
            IF first_factor.st # "ok" THEN first_factor
            ELSE TermOperations(first_factor.rest, first_factor.val, 0)
    IN  Operations(parse_factor(input))

\* alt((parse_number, parse_cell_reference, parse_function_call, parse_parenthesized))
parse_factor(input) ==
    Alt(parse_number(input),
        Alt(parse_cell_reference(input),
            Alt(parse_function_call(input), parse_parenthesized(input))))

\* separated_list0 after its first element: spaces ',' spaces, an expression
ArgumentsRest(input, res) ==
    LET i1 == multispace0(input)
        More(e) ==
            IF e.st = "panic" THEN NomPanic
            ELSE IF e.st = "err" THEN NomOk(input, res)
            ELSE ArgumentsRest(e.rest, Append(res, e.val))
    IN  IF i1 = <<>> \/ Head(i1) # "," THEN NomOk(input, res)
        ELSE More(parse_expression(multispace0(Tail(i1))))

\* separated_list0(',', parse_expression)
Arguments(input) ==
    LET First(e) ==
            IF e.st = "panic" THEN NomPanic
            ELSE IF e.st = "err" THEN NomOk(input, <<>>)
            ELSE ArgumentsRest(e.rest, <<e.val>>)
    IN  First(parse_expression(input))

parse_function_call(input) ==
    LET nl == LetterRun(input)
        i1 == SubSeq(input, nl + 1, Len(input))
        Close(args) ==
            IF args.st # "ok" THEN args
            ELSE IF args.rest = <<>> \/ Head(args.rest) # ")" THEN NomErr
            ELSE NomOk(Tail(args.rest),
                       Function(to_uppercase(SubSeq(input, 1, nl)), args.val))
    IN  IF nl = 0 THEN NomErr
        ELSE IF i1 = <<>> \/ Head(i1) # "(" THEN NomErr
        ELSE Close(Arguments(Tail(i1)))

parse_parenthesized(input) ==
    LET Close(e) ==
            IF e.st # "ok" THEN e
            ELSE IF e.rest = <<>> \/ Head(e.rest) # ")" THEN NomErr
            ELSE NomOk(Tail(e.rest), Group(e.val))
    IN  IF input = <<>> \/ Head(input) # "(" THEN NomErr
        ELSE Close(parse_expression(Tail(input)))

RECURSIVE parse_formula(_)
parse_formula(input) ==
    IF input = <<>> \/ Head(input) # "=" THEN NomErr ELSE parse_expression(Tail(input))

RECURSIVE parse_formula_safe(_)
parse_formula_safe(formula_str) ==
    LET Result(r) ==
            IF r.st = "panic" THEN Panic("arithmetic overflow")
            ELSE IF r.st = "err" THEN Err("Parse error")
            ELSE IF r.rest # <<>> THEN Err("Could not parse entire formula")
            ELSE Ok(r.val)
    IN  Result(parse_formula(formula_str))

starts_with(s, c) == s # <<>> /\ Head(s) = c

ends_with(s, c) == s # <<>> /\ s[Len(s)] = c

RECURSIVE Formula_parse_advanced(_)
\* Formula::parse_advanced (formula/ast/mod.rs)
Formula_parse_advanced(formula) ==
    IF ~starts_with(formula, "=") THEN Err("Formula must start with '='")
    ELSE parse_formula_safe(formula)

\* str::find(char): the 1-based position of the first occurrence, 0 for None
Find(s, c) ==
    IF \E i \in 1..Len(s) : s[i] = c
    THEN CHOOSE i \in 1..Len(s) : s[i] = c /\ \A j \in 1..(i - 1) : s[j] # c
    ELSE 0

\* str::split(char): the pieces between the occurrences of c
RECURSIVE Split(_, _)
Split(s, c) ==
    IF Find(s, c) = 0 THEN <<s>>
    ELSE <<SubSeq(s, 1, Find(s, c) - 1)>> \o Split(SubSeq(s, Find(s, c) + 1, Len(s)), c)

RECURSIVE Formula_parse(_)
\* Formula::parse (formula/ast/mod.rs): only the sum of two cell references
Formula_parse(formula) ==
    LET expr_str == Tail(formula)
        parts    == Split(expr_str, "+")
        left     == CellRef_parse(parts[1])
        right    == CellRef_parse(parts[2])
    IN  IF ~starts_with(formula, "=") THEN Err("Formula must start with '='")
        ELSE IF Len(parts) # 2 THEN Err("Could not parse formula")
        ELSE IF left.kind # "ok" THEN left
        ELSE IF right.kind # "ok" THEN right
        ELSE Ok(Binary(CellRefExpr(left.val), "Add", CellRefExpr(right.val)))

parse_cell_or_number(text) ==
    LET AsNumber(num) ==
            IF num.ok THEN Ok(Number(num.val))
            ELSE Err("Could not parse as cell or number")
        AsCell(cell) ==
            IF cell.kind = "panic" THEN cell
            ELSE IF cell.kind = "ok" THEN Ok(CellRefExpr(cell.val))
            ELSE AsNumber(parse_f64(trim(text)))
    IN  AsCell(CellRef_parse(trim(text)))

BinaryOperators ==
    << [ch |-> "+", op |-> "Add"], [ch |-> "-", op |-> "Subtract"],
       [ch |-> "*", op |-> "Multiply"], [ch |-> "/", op |-> "Divide"] >>

\* parse_binary_operation from the k-th operator of the table on
RECURSIVE BinaryOperationFrom(_, _)
BinaryOperationFrom(expr, k) ==
    IF k > Len(BinaryOperators) THEN parse_cell_or_number(expr)
    ELSE LET pos == Find(expr, BinaryOperators[k].ch)
             Operation(left_expr, right_expr) ==
                 IF left_expr.kind # "ok" THEN left_expr
                 ELSE IF right_expr.kind # "ok" THEN right_expr
                 ELSE Ok(Binary(left_expr.val, BinaryOperators[k].op, right_expr.val))
         IN  IF pos = 0 THEN BinaryOperationFrom(expr, k + 1)
             ELSE Operation(parse_cell_or_number(SubSeq(expr, 1, pos - 1)),
                            parse_cell_or_number(SubSeq(expr, pos + 1, Len(expr))))

RECURSIVE parse_binary_operation(_)
parse_binary_operation(expr) == BinaryOperationFrom(expr, 1)

----------------------------------------------------------------------------
(* operations/mod.rs: the registry, a map from name to Operation.  The     *)
(* closure of an operation is held as its name: the five closures of       *)
(* register_builtins and the closure the day 5 demo registers.             *)

\* struct Operation
Operation(name, op_type, description, execute) ==
    [name |-> name, op_type |-> op_type, description |-> description, execute |-> execute]

\* register_builtins: the operations it registers
BuiltinOperations ==
    { Operation(<<"S", "U", "M">>, "Calculation", <<"S", "u", "m", " ", "n", "u", "m", "b", "e", "r", "s">>, "SUM"),
      Operation(<<"D", "O", "U", "B", "L", "E">>, "Calculation", <<"D", "o", "u", "b", "l", "e", " ", "a", " ", "n", "u", "m", "b", "e", "r">>, "DOUBLE"),
      Operation(<<"N", "E", "P", "A", "L", "_", "P", "H", "O", "N", "E">>, "DataGeneration", <<"G", "e", "n", "e", "r", "a", "t", "e", " ", "N", "e", "p", "a", "l", " ", "p", "h", "o", "n", "e", " ", "n", "u", "m", "b", "e", "r">>, "NEPAL_PHONE"),
      Operation(<<"G", "E", "N", "E", "R", "A", "T", "E", "_", "D", "A", "T", "A">>, "DataGeneration", <<"G", "e", "n", "e", "r", "a", "t", "e", " ", "t", "e", "s", "t", " ", "d", "a", "t", "a">>, "GENERATE_DATA"),
      Operation(<<"N", "A", "T", "U", "R", "A", "L">>, "AIPrompt", <<"E", "x", "e", "c", "u", "t", "e", " ", "n", "a", "t", "u", "r", "a", "l", " ", "l", "a", "n", "g", "u", "a", "g", "e", " ", "c", "o", "m", "m", "a", "n", "d">>, "NATURAL") }

\* OperationRegistry::register: insert under the operation's name
OperationRegistry_register(registry, operation) ==
    [name \in DOMAIN registry \cup {operation.name} |->
        IF name = operation.name THEN operation ELSE registry[name]]

\* OperationRegistry::get
OperationRegistry_get(registry, name) ==
    IF name \in DOMAIN registry THEN Some(registry[name]) ELSE None

\* OperationRegistry::new: the empty map with the builtins registered
OperationRegistry_new ==
    [name \in {operation.name : operation \in BuiltinOperations} |->
        CHOOSE operation \in BuiltinOperations : operation.name = name]

\* a listing of the operation names alone
list_operations_NamesOnly(registry) == DOMAIN registry

\* OperationRegistry::list_operations: "name - description" for every operation
list_operations(registry) ==
    {registry[name].name \o <<" ", "-", " ">> \o registry[name].description :
        name \in DOMAIN registry}

\* an argument of a registered function: a cell, a number, or the placeholder
ArgumentExpr(arg) ==
    LET AsNumber(num) == IF num.ok THEN Ok(Number(num.val)) ELSE Ok(Number(F64Zero))
        AsCell(cell) ==
            IF cell.kind = "panic" THEN cell
            ELSE IF cell.kind = "ok" THEN Ok(CellRefExpr(cell.val))
            ELSE AsNumber(parse_f64(arg))
    IN  AsCell(CellRef_parse(arg))

RECURSIVE parse_formula_with_ops(_, _)
parse_formula_with_ops(formula, registry) ==
    LET expr_str  == Tail(formula)
        pos       == Find(expr_str, "(")
        func_name == SubSeq(expr_str, 1, pos - 1)
        rest      == SubSeq(expr_str, pos, Len(expr_str))
        args_str  == SubSeq(rest, 2, Len(rest) - 1)
        pieces    == Split(args_str, ",")
        Call(args) ==
            IF \E i \in 1..Len(args) : args[i].kind = "panic"
            THEN Panic("arithmetic overflow")
            ELSE Ok(Function(to_uppercase(func_name),
                             [i \in 1..Len(args) |-> args[i].val]))
    IN  IF ~starts_with(formula, "=") THEN Err("Formula must start with '='")
        ELSE IF /\ pos # 0
                /\ ends_with(rest, ")")
                /\ to_uppercase(func_name) \in list_operations(registry)
             THEN Call([i \in 1..Len(pieces) |-> ArgumentExpr(trim(pieces[i]))])
        ELSE parse_binary_operation(expr_str)

----------------------------------------------------------------------------
(* storage/mod.rs, storage/columnar.rs: ColumnStats and QuantumColumn.      *)
(* Cell values are f64 in the code; the model stores small integers, on     *)
(* which f64 arithmetic is exact.                                           *)

ColumnStats_new == [min |-> None, max |-> None, sum |-> None, count |-> 0]

QuantumColumn_new == [data |-> <<>>, stats |-> ColumnStats_new]

MinOf(a, b) == IF a <= b THEN a ELSE b

MaxOf(a, b) == IF a >= b THEN a ELSE b

\* a push that keeps the first minimum it saw: the later values are not
\* compared with it
QuantumColumn_push_StaleMin(column, value) ==
    [data  |-> Append(column.data, value),
     stats |-> [count |-> column.stats.count + 1,
                min   |-> Some(IF column.stats.min.some
                               THEN column.stats.min.val ELSE value),
                max   |-> Some(IF column.stats.max.some
                               THEN MaxOf(column.stats.max.val, value) ELSE value),
                sum   |-> Some((IF column.stats.sum.some
                                THEN column.stats.sum.val ELSE 0) + value)]]

\* QuantumColumn::push
QuantumColumn_push(column, value) ==
    [data  |-> Append(column.data, value),
     stats |-> [count |-> column.stats.count + 1,
                min   |-> Some(IF column.stats.min.some
                               THEN MinOf(column.stats.min.val, value) ELSE value),
                max   |-> Some(IF column.stats.max.some
                               THEN MaxOf(column.stats.max.val, value) ELSE value),
                sum   |-> Some((IF column.stats.sum.some
                                THEN column.stats.sum.val ELSE 0) + value)]]

----------------------------------------------------------------------------
(* grid/mod.rs: QuantumGrid *)

\* CellRef::to_zero_based: row - 1 and col - 1 on u32; at 0 the subtraction
\* panics with overflow checks and wraps to 2^32 - 1 without
CellRef_to_zero_based(cell) ==
    IF overflow_checks /\ (cell.row = 0 \/ cell.col = 0)
    THEN Panic("attempt to subtract with overflow")
    ELSE <<U32Dec(cell.row), U32Dec(cell.col)>>

\* a set_cell that starts a new column at every write instead of extending the
\* column it finds
set_cell_FreshColumn(cols, reference, value) ==
    LET Store(cell_ref) ==
            LET col_idx == cell_ref.val.col - 1
            IN  IF cell_ref.kind # "ok" THEN [result |-> cell_ref, columns |-> cols]
                ELSE IF ~CellRef_is_valid(cell_ref.val)
                    THEN [result  |-> Err("Cell reference out of Excel bounds"),
                          columns |-> cols]
                ELSE [result  |-> Ok(<<>>),
                      columns |-> [c \in DOMAIN cols \cup {col_idx} |->
                                      IF c = col_idx
                                      THEN QuantumColumn_push(QuantumColumn_new, value)
                                      ELSE cols[c]]]
    IN  Store(CellRef_parse(reference))

RECURSIVE set_cell(_, _, _)
\* QuantumGrid::set_cell: the result and the columns afterwards
set_cell(cols, reference, value) ==
    LET Store(cell_ref) ==
            LET col_idx == CellRef_to_zero_based(cell_ref.val)[2]
                column  == IF col_idx \in DOMAIN cols THEN cols[col_idx]
                           ELSE QuantumColumn_new
            IN  IF cell_ref.kind # "ok" THEN [result |-> cell_ref, columns |-> cols]
                ELSE IF ~CellRef_is_valid(cell_ref.val)
                    THEN [result  |-> Err("Cell reference out of Excel bounds"),
                          columns |-> cols]
                ELSE [result  |-> Ok(<<>>),
                      columns |-> [c \in DOMAIN cols \cup {col_idx} |->
                                      IF c = col_idx
                                      THEN QuantumColumn_push(column, value)
                                      ELSE cols[c]]]
    IN  Store(CellRef_parse(reference))

\* usize::MAX of a 64-bit target
usize_MAX == <<"1", "8", "4", "4", "6", "7", "4", "4", "0", "7", "3", "7", "0", "9", "5", "5", "1", "6", "1", "5">>

\* str::parse::<usize> as get_cell uses it: an optional '+', then digits read
\* from the left, each checked to be a digit before the value is extended, so
\* a value above usize::MAX is reported unless a bad character comes first; the
\* value is only compared with a column length, so values from 2^31 - 1 on are
\* held as 2^31 - 1; error is the Display text of the ParseIntError
parse_usize(s) ==
    LET body   == IF s # <<>> /\ Head(s) = "+" THEN Tail(s) ELSE s
        run    == DigitRun(body)
        digits == StripLeadingZeros(SubSeq(body, 1, run))
        Failed(error) == [ok |-> FALSE, val |-> 0, error |-> error]
    IN  IF s = <<>> THEN Failed("cannot parse integer from empty string")
        ELSE IF body = <<>> THEN Failed("invalid digit found in string")
        ELSE IF BigCmp(DigitsOf(digits), DigitsOf(usize_MAX)) > 0
            THEN Failed("number too large to fit in target type")
        ELSE IF run < Len(body) THEN Failed("invalid digit found in string")
        ELSE IF Len(digits) > 9 THEN [ok |-> TRUE, val |-> 2147483647, error |-> ""]
        ELSE [ok |-> TRUE, val |-> DigitsValue(digits, 0), error |-> ""]

RECURSIVE get_cell(_, _)
\* QuantumGrid::get_cell
get_cell(cols, reference) ==
    LET col_str == SubSeq(reference, 1, 1)
        row_str == SubSeq(reference, 2, Len(reference))
        col     == Ord(col_str[1]) - Ord("A")
        row     == parse_usize(row_str)
    IN  IF Len(reference) < 1 THEN Panic("split_at out of bounds")
        ELSE IF col < 0 /\ overflow_checks THEN Panic("arithmetic overflow")
        ELSE IF ~row.ok THEN Err("Invalid row: " \o row.error)
        ELSE IF col \in DOMAIN cols
            THEN IF row.val < Len(cols[col].data)
                 THEN Ok(cols[col].data[row.val + 1])
                 ELSE Err("Row out of bounds")
        ELSE Err("Column not found")

----------------------------------------------------------------------------
(* ai/nlp/mod.rs: NaturalLanguageTranslator.  A pattern is the sequence of  *)
(* the elements of its regular expression: an alternation of literal words, *)
(* a run of whitespace (\s+) or a captured cell ([A-Za-z]+\d+).  No literal *)
(* of the patterns is a prefix of another literal of the same alternation,  *)
(* and no element can match a character the next element starts with, so    *)
(* the greedy match of each element is the only one the regex can use.      *)

Words(ws) == [t |-> "words", ws |-> ws]

Spaces == [t |-> "spaces"]

Cell == [t |-> "cell"]

\* the patterns of add_patterns, in the order they are added
Patterns ==
    << [regex |-> << Words(<<<<"a", "d", "d">>, <<"s", "u", "m">>, <<"p", "l", "u", "s">>>>), Spaces, Cell, Spaces,
                     Words(<<<<"a", "n", "d">>, <<"t", "o">>, <<"w", "i", "t", "h">>>>), Spaces, Cell >>,
        form  |-> "infix", text |-> <<"+">>],
       [regex |-> << Words(<<<<"s", "u", "b", "t", "r", "a", "c", "t">>, <<"m", "i", "n", "u", "s">>, <<"t", "a", "k", "e", " ", "a", "w", "a", "y">>>>), Spaces, Cell, Spaces,
                     Words(<<<<"f", "r", "o", "m">>>>), Spaces, Cell >>,
        form  |-> "swapped", text |-> <<"-">>],
       [regex |-> << Words(<<<<"m", "u", "l", "t", "i", "p", "l", "y">>, <<"t", "i", "m", "e", "s">>>>), Spaces, Cell, Spaces,
                     Words(<<<<"b", "y">>, <<"w", "i", "t", "h">>>>), Spaces, Cell >>,
        form  |-> "infix", text |-> <<"*">>],
       [regex |-> << Words(<<<<"d", "i", "v", "i", "d", "e">>>>), Spaces, Cell, Spaces,
                     Words(<<<<"b", "y">>>>), Spaces, Cell >>,
        form  |-> "infix", text |-> <<"/">>],
       [regex |-> << Words(<<<<"s", "u", "m">>, <<"t", "o", "t", "a", "l">>>>), Spaces, Words(<<<<"o", "f">>, <<"f", "o", "r">>>>), Spaces,
                     Cell, Spaces, Words(<<<<"t", "o">>, <<"t", "h", "r", "o", "u", "g", "h">>>>), Spaces, Cell >>,
        form  |-> "call", text |-> <<"S", "U", "M">>],
       [regex |-> << Words(<<<<"a", "v", "e", "r", "a", "g", "e">>, <<"m", "e", "a", "n">>>>), Spaces, Words(<<<<"o", "f">>, <<"f", "o", "r">>>>), Spaces,
                     Cell, Spaces, Words(<<<<"t", "o">>, <<"t", "h", "r", "o", "u", "g", "h">>>>), Spaces, Cell >>,
        form  |-> "call", text |-> <<"A", "V", "E", "R", "A", "G", "E">>] >>

to_ascii_lowercase(c) == IF Ord(c) \in 65..90 THEN Chr(Ord(c) + 32) ELSE c

to_lowercase(s) == [i \in 1..Len(s) |-> to_ascii_lowercase(s[i])]

\* the number of leading whitespace characters of s
RECURSIVE SpaceRun(_)
SpaceRun(s) == IF s # <<>> /\ is_whitespace(Head(s)) THEN 1 + SpaceRun(Tail(s)) ELSE 0

\* the literal w (in lowercase) starts s, in either case of the letters of s
IsPrefix(w, s) == Len(w) <= Len(s) /\ \A i \in 1..Len(w) : to_ascii_lowercase(s[i]) = w[i]

\* the number of characters one element of a pattern takes at the start of s
\* (letters match in either case: the regex is built case-insensitive);
\* 0 if the element does not match there
ElementLength(s, e) ==
    LET hits == {k \in 1..Len(e.ws) : IsPrefix(e.ws[k], s)}
        first == CHOOSE k \in hits : \A j \in hits : k <= j
        cell(letters) ==
            IF letters > 0 /\ DigitRun(SubSeq(s, letters + 1, Len(s))) > 0
            THEN letters + DigitRun(SubSeq(s, letters + 1, Len(s)))
            ELSE 0
    IN  IF e.t = "spaces" THEN SpaceRun(s)
        ELSE IF e.t = "cell" THEN cell(LetterRun(s))
        ELSE IF hits = {} THEN 0
        ELSE Len(e.ws[first])

\* the match of the elements at the start of s: the captured cells, or no match
RECURSIVE MatchFrom(_, _, _)
MatchFrom(s, elements, caps) ==
    LET Step(n) ==
            IF n = 0 THEN [ok |-> FALSE]
            ELSE MatchFrom(SubSeq(s, n + 1, Len(s)), Tail(elements),
                           IF Head(elements).t = "cell"
                           THEN Append(caps, SubSeq(s, 1, n))
                           ELSE caps)
    IN  IF elements = <<>> THEN [ok |-> TRUE, caps |-> caps]
        ELSE Step(ElementLength(s, Head(elements)))

\* the leftmost match of the regex in s that starts at position i or later
RECURSIVE CapturesFrom(_, _, _)
CapturesFrom(regex, s, i) ==
    LET Try(m) == IF m.ok THEN m ELSE CapturesFrom(regex, s, i + 1)
    IN  IF i > Len(s) THEN [ok |-> FALSE]
        ELSE Try(MatchFrom(SubSeq(s, i, Len(s)), regex, <<>>))

\* Regex::captures: the leftmost match
regex_captures(regex, s) == CapturesFrom(regex, s, 1)

\* a closure that leaves the captured cells in the case they were matched in
Transform_KeepsCase(pattern, caps) ==
    LET cell1 == caps[1]
        cell2 == caps[2]
    IN  IF pattern.form = "infix" THEN <<"=">> \o cell1 \o pattern.text \o cell2
        ELSE IF pattern.form = "swapped" THEN <<"=">> \o cell2 \o pattern.text \o cell1
        ELSE <<"=">> \o pattern.text \o <<"(">> \o cell1 \o <<":">> \o cell2 \o <<")">>

\* the closure of a pattern applied to its captures
Transform(pattern, caps) ==
    LET cell1 == to_uppercase(caps[1])
        cell2 == to_uppercase(caps[2])
    IN  IF pattern.form = "infix" THEN <<"=">> \o cell1 \o pattern.text \o cell2
        ELSE IF pattern.form = "swapped" THEN <<"=">> \o cell2 \o pattern.text \o cell1
        ELSE <<"=">> \o pattern.text \o <<"(">> \o cell1 \o <<":">> \o cell2 \o <<")">>

\* the loop of translate from the k-th pattern on: the first pattern that
\* matches wins
RECURSIVE TranslateFrom(_, _)
TranslateFrom(text_lower, k) ==
    LET Try(caps) ==
            IF caps.ok THEN Some(Transform(Patterns[k], caps.caps))
            ELSE TranslateFrom(text_lower, k + 1)
    IN  IF k > Len(Patterns) THEN None
        ELSE Try(regex_captures(Patterns[k].regex, text_lower))

RECURSIVE translate(_)
\* NaturalLanguageTranslator::translate
translate(text) == TranslateFrom(to_lowercase(text), 1)

----------------------------------------------------------------------------
(* grid/mod.rs: formulas; api/mod.rs: QuantumAPI::set_formula *)

\* a set_formula that clears the cell when the new formula does not parse
set_formula_ClearsOnFailure(fs, reference, formula) ==
    LET Insert(cell_ref, parsed_formula) ==
            IF parsed_formula.kind # "ok"
            THEN [result   |-> parsed_formula,
                  formulas |-> [c \in DOMAIN fs \ {cell_ref} |-> fs[c]]]
            ELSE [result   |-> Ok(<<>>),
                  formulas |-> [c \in DOMAIN fs \cup {cell_ref} |->
                                   IF c = cell_ref THEN parsed_formula.val ELSE fs[c]]]
        Store(cell_ref) ==
            IF cell_ref.kind # "ok" THEN [result |-> cell_ref, formulas |-> fs]
            ELSE IF ~CellRef_is_valid(cell_ref.val)
                THEN [result   |-> Err("Cell reference out of Excel bounds"),
                      formulas |-> fs]
            ELSE Insert(cell_ref.val, Formula_parse(formula))
    IN  Store(CellRef_parse(reference))

RECURSIVE set_formula(_, _, _)
\* QuantumGrid::set_formula: the result and the formulas afterwards
set_formula(fs, reference, formula) ==
    LET Insert(cell_ref, parsed_formula) ==
            IF parsed_formula.kind # "ok" THEN [result |-> parsed_formula, formulas |-> fs]
            ELSE [result   |-> Ok(<<>>),
                  formulas |-> [c \in DOMAIN fs \cup {cell_ref} |->
                                   IF c = cell_ref THEN parsed_formula.val ELSE fs[c]]]
        Store(cell_ref) ==
            IF cell_ref.kind # "ok" THEN [result |-> cell_ref, formulas |-> fs]
            ELSE IF ~CellRef_is_valid(cell_ref.val)
                THEN [result   |-> Err("Cell reference out of Excel bounds"),
                      formulas |-> fs]
            ELSE Insert(cell_ref.val, Formula_parse(formula))
    IN  Store(CellRef_parse(reference))

\* QuantumGrid::set_formula_natural
set_formula_natural(fs, reference, natural_text) ==
    LET Match(formula) ==
            IF formula.some THEN set_formula(fs, reference, formula.val)
            ELSE [result |-> Err("Could not understand"), formulas |-> fs]
    IN  Match(translate(natural_text))

\* an f64 as a cell value of the model: the integer it is equal to for a
\* whole number of at most nine digits, the f64 itself for any other value
CellValue(v) ==
    IF "special" \in DOMAIN v \/ v.scale # 0 \/ Len(v.mant) > 9 \/ (v.neg /\ v.mant = <<>>)
    THEN v
    ELSE IF v.neg THEN 0 - BigValue(v.mant) ELSE BigValue(v.mant)

\* QuantumAPI::set_formula: the text is parsed as a number, 0.0 if it is none,
\* and handed to grid.set_cell; the result and the columns afterwards
QuantumAPI_set_formula(cols, cell, formula) ==
    LET Value(parsed) == IF parsed.ok THEN CellValue(parsed.val) ELSE 0
    IN  IF starts_with(formula, "=")
        THEN set_cell(cols, cell, Value(parse_f64(formula)))
        ELSE [result |-> Err("Formula must start with '='"), columns |-> cols]

----------------------------------------------------------------------------
(* ai/data_generator/mod.rs: AIDataGenerator.  A call takes its random      *)
(* numbers from the draws it is given: each is a value its gen_range can    *)
(* return.                                                                  *)

\* str::contains
contains(s, w) == \E i \in 1..(Len(s) - Len(w) + 1) : SubSeq(s, i, i + Len(w) - 1) = w

\* str::split_whitespace
RECURSIVE split_whitespace(_)
split_whitespace(s) ==
    LET t    == trim_start(s)
        word == IF Find(t, " ") = 0 THEN Len(t) ELSE Find(t, " ") - 1
    IN  IF t = <<>> THEN <<>>
        ELSE <<SubSeq(t, 1, word)>> \o split_whitespace(SubSeq(t, word + 1, Len(t)))

\* [String]::join
RECURSIVE join(_, _)
join(parts, sep) ==
    IF parts = <<>> THEN <<>>
    ELSE IF Len(parts) = 1 THEN parts[1]
    ELSE parts[1] \o sep \o join(Tail(parts), sep)

\* AIDataGenerator::new: indian_cities
indian_cities ==
    << <<"M", "u", "m", "b", "a", "i">>, <<"D", "e", "l", "h", "i">>, <<"B", "a", "n", "g", "a", "l", "o", "r", "e">>, <<"H", "y", "d", "e", "r", "a", "b", "a", "d">>, <<"A", "h", "m", "e", "d", "a", "b", "a", "d">>,
       <<"C", "h", "e", "n", "n", "a", "i">>, <<"K", "o", "l", "k", "a", "t", "a">>, <<"S", "u", "r", "a", "t">>, <<"P", "u", "n", "e">>, <<"J", "a", "i", "p", "u", "r">>,
       <<"L", "u", "c", "k", "n", "o", "w">>, <<"K", "a", "n", "p", "u", "r">>, <<"N", "a", "g", "p", "u", "r">>, <<"I", "n", "d", "o", "r", "e">>, <<"T", "h", "a", "n", "e">>,
       <<"B", "h", "o", "p", "a", "l">>, <<"V", "i", "s", "a", "k", "h", "a", "p", "a", "t", "n", "a", "m">>, <<"P", "i", "m", "p", "r", "i", "-", "C", "h", "i", "n", "c", "h", "w", "a", "d">>, <<"P", "a", "t", "n", "a">>, <<"V", "a", "d", "o", "d", "a", "r", "a">> >>

\* the options of generate_gender
gender_options == << <<"M", "a", "l", "e">>, <<"F", "e", "m", "a", "l", "e">>, <<"O", "t", "h", "e", "r">> >>

\* generate_nepal_phone: prefix drawn from 98..=99, suffix from 10000000..=99999999
generate_nepal_phone(draw) == U32ToString(draw.prefix) \o U32ToString(draw.suffix)

\* generate_indian_city: the index is drawn from 0..len
generate_indian_city(draw) == indian_cities[draw.city + 1]

\* generate_gender: the index is drawn from 0..3
generate_gender(draw) == gender_options[draw.gender + 1]

\* generate_record
generate_record(id, draw) ==
    [id     |-> id,
     phone  |-> generate_nepal_phone(draw),
     city   |-> generate_indian_city(draw),
     gender |-> generate_gender(draw)]

\* AIDataGenerator::generate_records: the records 1..count; record id takes
\* the draws of its place in the stream, which starts again at its end
generate_records(count, stream) ==
    [id \in 1..count |-> generate_record(id, stream[((id - 1) % Len(stream)) + 1])]

\* AIDataGenerator::generate_from_request: the records, or an error
generate_from_request(request, stream) ==
    LET words   == split_whitespace(request)
        numbers == {k \in 1..Len(words) : parse_u32(words[k]).ok}
        first   == CHOOSE k \in numbers : \A j \in numbers : k <= j
        count   == IF numbers = {} THEN 10 ELSE parse_u32(words[first]).val
        lower   == to_lowercase(request)
    IN  IF \E w \in {<<"p", "h", "o", "n", "e">>, <<"n", "e", "p", "a", "l">>, <<"c", "i", "t", "y">>, <<"i", "n", "d", "i", "a">>, <<"g", "e", "n", "d", "e", "r">>} : contains(lower, w)
        THEN Ok(generate_records(count, stream))
        ELSE Err("Request should mention phone, city, or gender")

\* Debug of a DataRecord ({:?}); the texts hold no character that Debug escapes
DataRecord_fmt(record) ==
    <<"D", "a", "t", "a", "R", "e", "c", "o", "r", "d", " ", "{", " ", "i", "d", ":", " ">> \o U32ToString(record.id)
        \o <<",", " ", "p", "h", "o", "n", "e", ":", " ", "\"">> \o record.phone \o <<"\"">>
        \o <<",", " ", "c", "i", "t", "y", ":", " ", "\"">> \o record.city \o <<"\"">>
        \o <<",", " ", "g", "e", "n", "d", "e", "r", ":", " ", "\"">> \o record.gender \o <<"\"", " ", "}">>

----------------------------------------------------------------------------
(* operations/mod.rs: the builtin operations; formula/parser/mod.rs:        *)
(* execute_formula; api/mod.rs: QuantumAPI::execute.  An execution gives    *)
(* the result and the columns of the grid afterwards.  The random draw of   *)
(* an operation is an argument (rng): the number NEPAL_PHONE draws and the  *)
(* draws of the generator of GENERATE_DATA.                                 *)

\* the loop of SUM: the arguments that are numbers are added, the others skipped
RECURSIVE SumArguments(_, _)
SumArguments(args, total) ==
    IF args = <<>> THEN total
    ELSE SumArguments(Tail(args),
                      IF parse_f64(Head(args)).ok
                      THEN F64Add(total, parse_f64(Head(args)).val)
                      ELSE total)

\* the loop of GENERATE_DATA over the records taken: a line of the listing for
\* each, and a placeholder 0.0 written to A1 .. An for the first hundred; the
\* result of each set_cell is dropped
RECURSIVE StoreRecords(_, _, _, _)
StoreRecords(cols, result, data_records, i) ==
    IF i >= Len(data_records) THEN [result |-> result, columns |-> cols]
    ELSE StoreRecords(IF i < 100
                      THEN set_cell(cols, <<"A">> \o NatToString(i + 1), 0).columns
                      ELSE cols,
                      result \o <<"R", "o", "w", " ">> \o NatToString(i + 1) \o <<":", " ">>
                             \o DataRecord_fmt(data_records[i + 1]) \o <<"\n">>,
                      data_records, i + 1)

RECURSIVE GenerateData(_, _, _)
\* the closure of GENERATE_DATA; rng.records are the draws of its generator
GenerateData(cols, args, rng) ==
    LET parsed  == IF args # <<>> THEN parse_u32(args[1]) ELSE [ok |-> FALSE, val |-> 0]
        count   == IF parsed.ok THEN parsed.val ELSE 10
        request == IF Len(args) > 1 THEN join(Tail(args), <<" ">>)
                   ELSE <<"N", "e", "p", "a", "l", " ", "p", "h", "o", "n", "e", " ", "n", "u", "m", "b", "e", "r", "s">>
        Listed(listing) ==
            [result  |-> Ok(<<"G", "e", "n", "e", "r", "a", "t", "e", "d", " ">> \o U32ToString(count) \o <<" ", "r", "o", "w", "s", ":", "\n">> \o listing.result),
             columns |-> listing.columns]
        Generated(data_records) ==
            IF data_records.kind # "ok"
            THEN [result |-> Err("Failed to generate data"), columns |-> cols]
            ELSE Listed(StoreRecords(cols, <<>>,
                                     IF Len(data_records.val) <= count
                                     THEN data_records.val
                                     ELSE SubSeq(data_records.val, 1, count), 0))
    IN  Generated(generate_from_request(
            U32ToString(count) \o <<" ", "r", "o", "w", "s", " ">> \o request, rng.records))

RECURSIVE execute_formula(_, _, _)

RECURSIVE Natural(_, _, _)
\* the closure of NATURAL
Natural(cols, args, rng) ==
    LET command == join(args, <<" ">>)
        Executed(formula, r) ==
            [result  |-> IF r.result.kind = "ok"
                         THEN Ok(<<"T", "r", "a", "n", "s", "l", "a", "t", "e", "d", " ", "t", "o", ":", " ">> \o formula \o <<" ", "=", " ">> \o r.result.val)
                         ELSE IF r.result.kind = "err" THEN Err("Could not execute")
                         ELSE r.result,
             columns |-> r.columns]
        Match(formula) ==
            IF formula.some
            THEN Executed(formula.val, execute_formula(cols, formula.val, rng))
            ELSE [result |-> Ok(<<"U", "n", "d", "e", "r", "s", "t", "o", "o", "d", ":", " ">> \o command), columns |-> cols]
    IN  IF args = <<>>
        THEN [result  |-> Err("Please provide a natural language command"),
              columns |-> cols]
        ELSE Match(translate(command))

RECURSIVE OperationRegistry_execute(_, _, _, _, _)
\* OperationRegistry::execute: the closure of the named operation is called
OperationRegistry_execute(registry, name, cols, args, rng) ==
    LET Double(parsed) ==
            IF parsed.ok
            THEN Ok(F64ToString(parsed.val) \o <<" ", "d", "o", "u", "b", "l", "e", "d", " ", "i", "s", " ">>
                        \o F64ToString(F64Double(parsed.val)))
            ELSE Err("is not a valid number")
        DemoDouble(parsed) ==
            IF parsed.ok
            THEN Ok(F64ToString(parsed.val) \o <<" ", "d", "o", "u", "b", "l", "e", "d", " ", "i", "s", " ">>
                        \o F64ToString(F64Double(parsed.val)))
            ELSE Err("Please provide a valid number")
    IN  IF name \notin DOMAIN registry
            THEN [result |-> Err("Operation not found"), columns |-> cols]
        ELSE IF registry[name].execute = "SUM"
            THEN [result  |-> Ok(F64ToString(SumArguments(args, F64Zero))),
                  columns |-> cols]
        ELSE IF registry[name].execute = "DOUBLE"
            THEN [result  |-> IF args = <<>> THEN Err("DOUBLE requires a number")
                              ELSE Double(parse_f64(args[1])),
                  columns |-> cols]
        ELSE IF registry[name].execute = "NEPAL_PHONE"
            THEN [result  |-> Ok(<<"9", "8">> \o ZeroPad(NatToString(rng.number), 8)),
                  columns |-> cols]
        ELSE IF registry[name].execute = "GENERATE_DATA" THEN GenerateData(cols, args, rng)
        ELSE IF registry[name].execute = "NATURAL" THEN Natural(cols, args, rng)
        ELSE [result  |-> IF args = <<>> THEN Err("Please provide a number")
                          ELSE DemoDouble(parse_f64(args[1])),
              columns |-> cols]

\* QuantumAPI::register_operation: the closure is registered as a Custom
\* operation; the call always succeeds
QuantumAPI_register_operation(registry, name, description, executor) ==
    [result     |-> Ok(<<>>),
     operations |-> OperationRegistry_register(registry,
                        Operation(name, "Custom", description, executor))]

\* the text handed to an operation for an argument of a parsed function
ArgumentString(arg) ==
    IF arg.tag = "CellRef" THEN CellRef_to_excel(arg.cell)
    ELSE IF arg.tag = "Number" THEN F64ToString(arg.n)
    ELSE <<>>

\* execute_formula: a registered function is executed, any other formula is
\* printed back
execute_formula(cols, formula, rng) ==
    LET registry == OperationRegistry_new
        Execute(formula_parsed) ==
            IF formula_parsed.kind # "ok"
                THEN [result |-> formula_parsed, columns |-> cols]
            ELSE IF formula_parsed.val.tag = "Function"
                THEN OperationRegistry_execute(registry, formula_parsed.val.name, cols,
                         [i \in 1..Len(formula_parsed.val.args) |->
                             ArgumentString(formula_parsed.val.args[i])], rng)
            ELSE [result  |-> Ok(<<"P", "a", "r", "s", "e", "d", ":", " ">> \o Formula_to_excel(formula_parsed.val)),
                  columns |-> cols]
    IN  Execute(parse_formula_with_ops(formula, registry))

RECURSIVE QuantumAPI_execute(_, _, _, _)
\* QuantumAPI::execute: a formula, a natural-language command (handed whole to
\* NATURAL, whose result is returned as it is) or an operation name with its
\* arguments (an error of the operation becomes "Could not understand")
QuantumAPI_execute(registry, cols, text, rng) ==
    LET command == trim(text)
        natural == \E w \in {<<"a", "d", "d">>, <<"s", "u", "m">>, <<"m", "u", "l", "t", "i", "p", "l", "y">>, <<"g", "e", "n", "e", "r", "a", "t", "e">>, <<"f", "i", "l", "t", "e", "r">>} :
                       contains(to_lowercase(command), w)
        parts   == split_whitespace(command)
        Result(r) ==
            IF ~natural /\ r.result.kind = "err"
            THEN [result |-> Err("Could not understand command"), columns |-> r.columns]
            ELSE r
    IN  IF starts_with(command, "=") THEN execute_formula(cols, command, rng)
        ELSE IF ~natural /\ parts = <<>>
            THEN [result |-> Err("Could not understand command"), columns |-> cols]
        ELSE Result(OperationRegistry_execute(registry,
                        IF natural THEN <<"N", "A", "T", "U", "R", "A", "L">> ELSE to_uppercase(parts[1]), cols,
                        IF natural THEN <<command>> ELSE Tail(parts), rng))

----------------------------------------------------------------------------
(* storage/columnar.rs: the aggregate queries; compute/mod.rs:              *)
(* calculate_stats; grid/mod.rs: column_sum and sum_range.  A quotient of   *)
(* two whole numbers is held as the fraction in lowest terms: equal         *)
(* fractions are the same f64 after the division.                           *)

RECURSIVE GCD(_, _)
GCD(a, b) == IF b = 0 THEN a ELSE GCD(b, a % b)

Abs(n) == IF n < 0 THEN 0 - n ELSE n

\* num / den on f64, den > 0
Quotient(num, den) ==
    [num |-> num \div GCD(Abs(num), den), den |-> den \div GCD(Abs(num), den)]

\* the f64 of a whole number, as a quotient
Whole(n) == [num |-> n, den |-> 1]

\* Option::unwrap_or
unwrap_or(option, default) == IF option.some THEN option.val ELSE default

\* QuantumColumn::sum
QuantumColumn_sum(column) == unwrap_or(column.stats.sum, 0)

\* QuantumColumn::average
QuantumColumn_average(column) ==
    IF column.stats.count = 0 THEN Whole(0)
    ELSE Quotient(QuantumColumn_sum(column), column.stats.count)

\* QuantumColumn::count
QuantumColumn_count(column) == column.stats.count

\* QuantumColumn::min
QuantumColumn_min(column) == column.stats.min

\* QuantumColumn::max
QuantumColumn_max(column) == column.stats.max

\* the loop of calculate_stats from the i-th value on; None stands for the
\* infinity min and max start from
RECURSIVE StatsLoop(_, _, _)
StatsLoop(data, i, acc) ==
    IF i > Len(data) THEN acc
    ELSE StatsLoop(data, i + 1,
             [sum |-> acc.sum + data[i],
              min |-> Some(IF acc.min.some THEN MinOf(acc.min.val, data[i]) ELSE data[i]),
              max |-> Some(IF acc.max.some THEN MaxOf(acc.max.val, data[i]) ELSE data[i])])

\* calculate_stats: (sum, average, min, max, count)
calculate_stats(data) ==
    LET Stats(acc) ==
            [sum |-> acc.sum, average |-> Quotient(acc.sum, Len(data)),
             min |-> acc.min.val, max |-> acc.max.val, count |-> Len(data)]
    IN  IF data = <<>>
        THEN [sum |-> 0, average |-> Whole(0), min |-> 0, max |-> 0, count |-> 0]
        ELSE Stats(StatsLoop(data, 1, [sum |-> 0, min |-> None, max |-> None]))

\* QuantumGrid::column_sum
column_sum(cols, col_letter) ==
    LET col_upper == to_ascii_uppercase(col_letter)
        col_idx   == Ord(col_upper) - Ord("A")
    IN  IF ~is_ascii_alphabetic(col_upper) THEN None
        ELSE IF col_idx \in DOMAIN cols THEN Some(QuantumColumn_sum(cols[col_idx]))
        ELSE None

RECURSIVE sum_range(_, _)
\* QuantumGrid::sum_range
sum_range(cols, range) ==
    LET Sum(sum) == IF sum.some THEN Ok(sum.val) ELSE Err("Column not found or empty")
    IN  IF range = <<>> THEN Err("Empty range")
        ELSE IF is_ascii_alphabetic(Head(range)) THEN Sum(column_sum(cols, Head(range)))
        ELSE Err("Invalid range format")

----------------------------------------------------------------------------
(* compute/mod.rs: optimized_sum and benchmark_sum.  The values are whole   *)
(* numbers, on which the order of the additions does not change the sum.    *)

\* data.iter().sum(): the elements from position i on added to acc, in order
RECURSIVE IterSum(_, _, _)
IterSum(data, i, acc) ==
    IF i > Len(data) THEN acc ELSE IterSum(data, i + 1, acc + data[i])

\* an optimized_sum that leaves out the elements after the last whole chunk
RECURSIVE ChunkLoop_NoRemainder(_, _, _)
ChunkLoop_NoRemainder(data, k, sum) ==
    IF k + 8 <= Len(data)
    THEN ChunkLoop_NoRemainder(data, k + 8,
             sum + (data[k + 1] + data[k + 2] + data[k + 3] + data[k + 4]
                        + data[k + 5] + data[k + 6] + data[k + 7] + data[k + 8]))
    ELSE sum

\* the loop over chunks_exact(8) from offset k on, then the remainder
RECURSIVE ChunkLoop(_, _, _)
ChunkLoop(data, k, sum) ==
    IF k + 8 <= Len(data)
    THEN ChunkLoop(data, k + 8,
             sum + (data[k + 1] + data[k + 2] + data[k + 3] + data[k + 4]
                        + data[k + 5] + data[k + 6] + data[k + 7] + data[k + 8]))
    ELSE sum + IterSum(SubSeq(data, k + 1, Len(data)), 1, 0)

\* optimized_sum
optimized_sum(data) ==
    IF Len(data) < 8 THEN IterSum(data, 1, 0) ELSE ChunkLoop(data, 0, 0)

\* benchmark_sum: the scalar and the optimized result; the speedup is a ratio
\* of measured times and is left out
benchmark_sum(data) ==
    [scalar_result |-> IterSum(data, 1, 0), optimized_result |-> optimized_sum(data)]

----------------------------------------------------------------------------
(* The address codec as a state machine: each step is one call *)

MaxSmallRow == 3

MaxRefLen == 3

MaxSmallCol == 30

RowInputs == (1..MaxSmallRow) \cup {9, 10, 99, 100, 1048575, ExcelMaxRow}

ColInputs == 1..ExcelMaxCol

RefAlphabet == <<"A", "Z", "b", "0", "1", "9", "+", "-", " ", "@">>

RefGenerated ==
    UNION {[1..n -> {RefAlphabet[i] : i \in 1..Len(RefAlphabet)}] : n \in 0..MaxRefLen}

RefExamples ==
    { <<"A", "1">>, <<"B", "2">>, <<"Z", "2", "6">>, <<"A", "A", "2", "7">>,
      <<"A", "B", "1", "0", "0">>,
      <<"X", "F", "D", "1", "0", "4", "8", "5", "7", "6">>,
      <<"x", "f", "d", "1", "0", "4", "8", "5", "7", "6">>,
      <<"A", "1", "0", "4", "8", "5", "7", "7">>,
      <<"X", "F", "E", "1">>,
      <<"A", "4", "2", "9", "4", "9", "6", "7", "2", "9", "5">>,
      <<"A", "4", "2", "9", "4", "9", "6", "7", "2", "9", "6">>,
      <<"A", "1", "B">>, <<"A", " ", "1">>, <<" ", "a", "a", "7", " ">>,
      <<"A", "1", ".", "5">>, <<"$", "A", "$", "1">>, <<"A", ":", "1">>,
      <<"a", "b", "1", "0", "0">>, <<" ", "X", "f", "D", "1", "0", " ">>,
      <<"G", "Y", "T", "I", "S", "Y", "X", "1">>,
      <<"M", "W", "L", "Q", "K", "W", "U", "1">>,
      <<"M", "W", "L", "Q", "K", "W", "V", "1">>,
      <<"M", "W", "L", "Q", "K", "W", "W", "1">>,
      <<"m", "w", "l", "q", "k", "w", "w", "1">>,
      <<"N", "A", "A", "A", "A", "A", "A", "1">>,
      <<"A", "A", "A", "A", "A", "A", "A", "A", "1">> }

RefInputs == RefGenerated \cup RefExamples

NoCell == CellRef_new(0, 0)

NoResult == [kind |-> "none"]

\* the addresses given to to_excel: every column with the extreme rows, and the
\* boundary rows with the first columns
CellInputs ==
    {CellRef_new(row, col) : row \in {1, ExcelMaxRow}, col \in ColInputs}
        \cup {CellRef_new(row, col) : row \in RowInputs, col \in 1..MaxSmallCol}

\* one call sequence per behaviour: the input is drawn at the start
CodecInit ==
    /\ codec_op = "input"
    /\ codec_result = NoResult
    /\ codec_printed = <<>>
    /\ codec_upper = NoResult
    /\ \/ codec_cell \in CellInputs /\ codec_text = <<>>
       \/ codec_cell = NoCell /\ codec_text \in RefInputs

\* CellRef::new(row, col).to_excel()
ToExcel ==
    /\ codec_op = "input"
    /\ codec_cell # NoCell
    /\ codec_op' = "to_excel"
    /\ codec_text' = CellRef_to_excel(codec_cell)
    /\ UNCHANGED <<codec_cell, codec_result, codec_printed, codec_upper>>
    /\ UNCHANGED codec_frame

\* CellRef::parse on the text to_excel has just produced
ParseEncoded ==
    /\ codec_op = "to_excel"
    /\ codec_op' = "parse_encoded"
    /\ codec_result' = CellRef_parse(codec_text)
    /\ UNCHANGED <<codec_cell, codec_text, codec_printed, codec_upper>>
    /\ UNCHANGED codec_frame

\* CellRef::parse on any text
ParseText ==
    /\ codec_op = "input"
    /\ codec_cell = NoCell
    /\ codec_op' = "parse"
    /\ codec_result' = CellRef_parse(codec_text)
    /\ UNCHANGED <<codec_cell, codec_text, codec_printed, codec_upper>>
    /\ UNCHANGED codec_frame

\* CellRef::parse(text).to_excel() on the text parsed last, and CellRef::parse
\* on that text in uppercase
Canonical ==
    /\ codec_op = "parse"
    /\ codec_op' = "canonical"
    /\ codec_printed' = IF codec_result.kind = "ok"
                        THEN CellRef_to_excel(codec_result.val) ELSE <<>>
    /\ codec_upper' = CellRef_parse(to_uppercase(codec_text))
    /\ UNCHANGED <<codec_cell, codec_text, codec_result>>
    /\ UNCHANGED codec_frame

CodecNext == ToExcel \/ ParseEncoded \/ ParseText \/ Canonical

----------------------------------------------------------------------------
(* The formula parsers as a state machine: the text is drawn at the start,  *)
(* one of the parsers is applied to it, and a parsed formula is printed.    *)

MaxTokens == 3

MaxOperands == 3

RECURSIVE Flatten(_)
Flatten(parts) == IF parts = <<>> THEN <<>> ELSE Head(parts) \o Flatten(Tail(parts))

Tokens == { <<"2">>, <<"A", "1">>, <<"A", "0">>, <<"+">>, <<"-">>, <<"*">>, <<"/">>, <<"(">>, <<")">>, <<"S", "U", "M">>, <<":">>, <<",">> }

\* every text made of at most MaxTokens tokens after the '='
TokenFormulas ==
    {<<"=">> \o Flatten(ts) : ts \in UNION {[1..n -> Tokens] : n \in 0..MaxTokens}}

\* operands with the expression each one denotes
Operands ==
    { [text |-> <<"2">>, expr |-> Number(F64(FALSE, <<2>>, 0))],
      [text |-> <<"3">>, expr |-> Number(F64(FALSE, <<3>>, 0))],
      [text |-> <<"4", "2">>, expr |-> Number(F64(FALSE, <<4, 2>>, 0))],
      [text |-> <<"A", "1">>, expr |-> CellRefExpr(CellRef_new(1, 1))],
      [text |-> <<"B", "2">>, expr |-> CellRefExpr(CellRef_new(2, 2))] }

Operators ==
    { [text |-> <<"+">>, op |-> "Add"], [text |-> <<"-">>, op |-> "Subtract"],
      [text |-> <<"*">>, op |-> "Multiply"], [text |-> <<"/">>, op |-> "Divide"] }

IsAdditive(op) == op \in {"Add", "Subtract"}

\* operand (operator operand)*: xs[1] os[1] xs[2] ... os[n-1] xs[n]
RECURSIVE FlatText(_, _)
FlatText(xs, os) ==
    IF os = <<>> THEN xs[1].text
    ELSE xs[1].text \o os[1].text \o FlatText(Tail(xs), Tail(os))

\* the flat formulas of 1 to MaxOperands operands, as (operands, operators)
FlatCases ==
    UNION {[xs : [1..n -> Operands], os : [1..(n - 1) -> Operators]] : n \in 1..MaxOperands}

FlatFormulas == {<<"=">> \o FlatText(c.xs, c.os) : c \in FlatCases}

\* sums and differences of two products or quotients, the shape the grammar takes
TwoLevelOperands == {<<"2">>, <<"A", "1">>, <<"A", "0">>}

TwoLevelFormulas ==
    {<<"=">> \o a \o m1 \o b \o p \o c \o m2 \o d :
        a \in TwoLevelOperands, b \in {<<"2">>, <<"A", "1">>}, c \in {<<"2">>, <<"A", "0">>}, d \in {<<"2">>, <<"A", "1">>},
        m1 \in {<<"*">>, <<"/">>}, m2 \in {<<"*">>, <<"/">>}, p \in {<<"+">>, <<"-">>}}

FunctionNames == {<<"S", "U", "M">>, <<"s", "u", "m">>, <<"A", "v", "e", "r", "a", "g", "e">>}

RangeEnds == {<<"A", "1">>, <<"A", "1", "0">>, <<"B", "2">>}

\* =F(X:Y)
RangeCallFormulas ==
    {<<"=">> \o f \o <<"(">> \o x \o <<":">> \o y \o <<")">> :
        f \in FunctionNames, x \in RangeEnds, y \in RangeEnds}

FormulaExamples ==
    { <<"=", "2", "+", "3", "*", "4">>, <<"=", "8", "-", "3", "-", "2">>, <<"=", "A", "1", " ", "+", " ", "B", "2">>, <<"=", "(", "A", "1", "+", "B", "2", ")", "*", "2">>, <<"=", "(", "2", "*", "3", "+", "4", "*", "2", ")", "*", "2", "+", "2", "*", "2">>,
      <<"=", "S", "U", "M", "(", "2", "*", "3", "+", "4", "*", "2", ")", "*", "2", "+", "2", "*", "2">>, <<"=", "s", "u", "m", "(", "2", "*", "3", "+", "4", "*", "2", ",", " ", "2", "*", "2", "-", "A", "1", "*", "2", ")", "*", "2", "+", "2", "*", "2">>, <<"=", "S", "U", "M", "(", ")", "*", "2", "+", "2", "*", "2">>,
      <<"=", "1", ".", "5", "0", "*", "2", "+", "3", "*", "4">>, <<"=", "-", "2", "*", "2", "+", "2", "*", "2">>, <<"=", "2", " ", "*", " ", "2", " ", "-", " ", "2", " ", "/", " ", "2">>, <<"=", "2", "*", "2", "+", "2", "*", "2", " ">>, <<"A", "1", "+", "B", "2">>, <<>>,
      <<"=", "A", "4", "2", "9", "4", "9", "6", "7", "2", "9", "6", "*", "2", "+", "2", "*", "2">>, <<"=", "2", "*", "A", "0", "+", "2", "*", "2">>, <<"=", "S", "U", "M", "(", "A", "0", ")">>, <<"=", "S", "U", "M", "(", "A", "1", ",", " ", "2", ")">>, <<"=", "S", "U", "M", "(", "x", ")">>,
      <<"=", "D", "O", "U", "B", "L", "E", "(", "2", "1", ")">>, <<"=", "d", "o", "u", "b", "l", "e", "(", "A", "1", ")">>, <<"=", "S", "U", "M", "(", "A", "1", ":", "A", "1", "0", ")", "+", "2">>, <<"=", "A", "1", "+", "B", "2", "+", "2">>, <<"=", "a", "1", "+", "b", "2">> }

FormulaInit ==
    /\ formula_op = "input"
    /\ \/ formula_text \in TokenFormulas
       \/ formula_text \in FlatFormulas
       \/ formula_text \in TwoLevelFormulas
       \/ formula_text \in RangeCallFormulas
       \/ formula_text \in FormulaExamples
    /\ formula_result = NoResult
    /\ formula_printed = <<>>

\* parse_formula_safe(formula_text)
ParseFormulaSafe ==
    /\ formula_op = "input"
    /\ formula_op' = "parse_formula_safe"
    /\ formula_result' = parse_formula_safe(formula_text)
    /\ UNCHANGED <<formula_text, formula_printed>>
    /\ UNCHANGED formula_frame

\* Formula::parse_advanced(formula_text)
ParseAdvanced ==
    /\ formula_op = "input"
    /\ formula_op' = "parse_advanced"
    /\ formula_result' = Formula_parse_advanced(formula_text)
    /\ UNCHANGED <<formula_text, formula_printed>>
    /\ UNCHANGED formula_frame

\* parse_formula_with_ops(formula_text, &OperationRegistry::new())
ParseWithOps ==
    /\ formula_op = "input"
    /\ formula_op' = "parse_formula_with_ops"
    /\ formula_result' = parse_formula_with_ops(formula_text, OperationRegistry_new)
    /\ UNCHANGED <<formula_text, formula_printed>>
    /\ UNCHANGED formula_frame

\* Formula::parse(formula_text)
ParseSimple ==
    /\ formula_op = "input"
    /\ formula_op' = "parse"
    /\ formula_result' = Formula_parse(formula_text)
    /\ UNCHANGED <<formula_text, formula_printed>>
    /\ UNCHANGED formula_frame

\* formula.to_excel() on the formula parse_formula_safe returned
FormulaToExcel ==
    /\ formula_op = "parse_formula_safe"
    /\ formula_result.kind = "ok"
    /\ formula_op' = "to_excel"
    /\ formula_printed' = Formula_to_excel(formula_result.val)
    /\ UNCHANGED <<formula_text, formula_result>>
    /\ UNCHANGED formula_frame

FormulaNext ==
    ParseFormulaSafe \/ ParseAdvanced \/ ParseWithOps \/ ParseSimple \/ FormulaToExcel

----------------------------------------------------------------------------
(* The grid as a state machine: set_cell and get_cell calls in any order *)

MaxWrites == 3

CellValues == {10, 20}

\* reference texts given to set_cell and get_cell
GridRefs ==
    { <<"A", "1">>, <<"A", "2">>, <<"A", "3">>, <<"B", "1">>, <<"a", "1">>, <<"A", "A", "1">>, <<"A", "0">>, <<"A">>, <<"X", "F", "E", "1">>, <<"A", "1", "0", "4", "8", "5", "7", "7">>, <<>>, <<"1">>, <<"@", "1">>,
      <<"M", "W", "L", "Q", "K", "W", "W", "1">> }

GridInit ==
    /\ columns = <<>>
    /\ formulas = <<>>
    /\ operations = OperationRegistry_new
    /\ grid_op = "new"
    /\ grid_ref = <<>>
    /\ grid_text = <<>>
    /\ grid_result = NoResult
    /\ written = <<>>
    /\ stored = <<>>
    /\ writes = 0

\* the record of the last value written to every address
Written(w, cell, value) ==
    [a \in DOMAIN w \cup {cell} |-> IF a = cell THEN value ELSE w[a]]

\* one call grid.set_cell(reference, value)
SetCellCall(reference, value) ==
    /\ writes < MaxWrites
    /\ writes' = writes + 1
    /\ grid_op' = "set_cell"
    /\ grid_ref' = reference
    /\ grid_text' = <<>>
    /\ \E r \in {set_cell(columns, reference, value)} :
           /\ grid_result' = r.result
           /\ columns' = r.columns
           /\ written' = IF r.result.kind = "ok"
                         THEN Written(written, CellRef_parse(reference).val, value)
                         ELSE written
    /\ UNCHANGED <<formulas, operations, stored>>
    /\ UNCHANGED grid_frame

\* grid.set_cell(reference, value)
SetCell == \E reference \in GridRefs, value \in CellValues : SetCellCall(reference, value)

\* grid.get_cell(reference)
GetCell ==
    \E reference \in GridRefs :
        /\ grid_op' = "get_cell"
        /\ grid_ref' = reference
        /\ grid_text' = <<>>
        /\ grid_result' = get_cell(columns, reference)
        /\ UNCHANGED <<columns, formulas, operations, written, stored, writes>>
        /\ UNCHANGED grid_frame

GridNext == SetCell \/ GetCell

----------------------------------------------------------------------------
(* The formula store and the command interface as state machines.  Calls    *)
(* that can append to a column are counted in writes and stop at MaxWrites. *)

\* one call grid.set_formula(reference, formula)
SetFormulaCall(reference, formula) ==
    /\ grid_op' = "set_formula"
    /\ grid_ref' = reference
    /\ grid_text' = formula
    /\ \E r \in {set_formula(formulas, reference, formula)} :
           /\ grid_result' = r.result
           /\ formulas' = r.formulas
           /\ stored' = IF r.result.kind = "ok"
                        THEN Written(stored, CellRef_parse(reference).val, formula)
                        ELSE stored
    /\ UNCHANGED <<columns, operations, written, writes>>
    /\ UNCHANGED grid_frame

\* one call grid.set_formula_natural(reference, natural_text)
SetFormulaNaturalCall(reference, natural_text) ==
    /\ grid_op' = "set_formula_natural"
    /\ grid_ref' = reference
    /\ grid_text' = natural_text
    /\ \E r \in {set_formula_natural(formulas, reference, natural_text)} :
           /\ grid_result' = r.result
           /\ formulas' = r.formulas
           /\ stored' = IF r.result.kind = "ok"
                        THEN Written(stored, CellRef_parse(reference).val,
                                     translate(natural_text).val)
                        ELSE stored
    /\ UNCHANGED <<columns, operations, written, writes>>
    /\ UNCHANGED grid_frame

\* the last value of the column of a cell
LastValue(cols, cell) == cols[cell.col - 1].data[Len(cols[cell.col - 1].data)]

\* one call api.set_formula(cell, formula)
ApiSetFormulaCall(cell, formula) ==
    /\ writes' = writes + 1
    /\ grid_op' = "api_set_formula"
    /\ grid_ref' = cell
    /\ grid_text' = formula
    /\ \E r \in {QuantumAPI_set_formula(columns, cell, formula)} :
           /\ grid_result' = r.result
           /\ columns' = r.columns
           /\ written' = IF r.result.kind = "ok"
                         THEN Written(written, CellRef_parse(cell).val,
                                      LastValue(r.columns, CellRef_parse(cell).val))
                         ELSE written
    /\ UNCHANGED <<formulas, operations, stored>>
    /\ UNCHANGED grid_frame

\* one call api.execute(command); rng is the random draw of the call
ExecuteCall(command, rng) ==
    /\ grid_op' = "execute"
    /\ grid_ref' = <<>>
    /\ grid_text' = command
    /\ \E r \in {QuantumAPI_execute(operations, columns, command, rng)} :
           /\ r.columns # columns => writes < MaxWrites
           /\ writes' = IF r.columns # columns THEN writes + 1 ELSE writes
           /\ grid_result' = r.result
           /\ columns' = r.columns
    /\ UNCHANGED <<formulas, operations, written, stored>>
    /\ UNCHANGED grid_frame

\* one call grid.sum_range(range)
SumRangeCall(range) ==
    /\ grid_op' = "sum_range"
    /\ grid_ref' = range
    /\ grid_text' = <<>>
    /\ grid_result' = sum_range(columns, range)
    /\ UNCHANGED <<columns, formulas, operations, written, stored, writes>>
    /\ UNCHANGED grid_frame

\* the draws of rng.gen_range(0..100000000) the model takes
NumberDraws == {0, 99999999}

\* the random draws of an operation the model takes: the number of
\* NEPAL_PHONE and the draws of the records of GENERATE_DATA
RandomDraws ==
    { [number  |-> 0,
       records |-> << [prefix |-> 98, suffix |-> 10000000, city |-> 0, gender |-> 0],
                      [prefix |-> 99, suffix |-> 99999999, city |-> 19, gender |-> 2] >>],
      [number  |-> 99999999,
       records |-> << [prefix |-> 99, suffix |-> 13473448, city |-> 9, gender |-> 1] >>] }

\* the number of calls of the formula store that can append to a column
MaxStoreWrites == 1

\* the inputs of the formula store
StoreRefs == {<<"C", "1">>, <<"D", "2">>, <<"X", "F", "E", "1">>}

StoreFormulas == {<<"=", "A", "1", "+", "B", "2">>, <<"=", "B", "1", "+", "A", "2">>, <<"=", "A", "1", "*", "B", "1">>, <<"A", "1", "+", "B", "2">>}

ApiFormulas == {<<"=", "A", "1", "+", "B", "2">>, <<"A", "1", "+", "B", "2">>}

NaturalTexts ==
    {<<"a", "d", "d", " ", "A", "1", " ", "a", "n", "d", " ", "B", "2">>, <<"s", "u", "b", "t", "r", "a", "c", "t", " ", "B", "1", " ", "f", "r", "o", "m", " ", "A", "2">>, <<"m", "u", "l", "t", "i", "p", "l", "y", " ", "A", "1", " ", "b", "y", " ", "B", "1">>, <<"d", "i", "v", "i", "d", "e", " ", "A", "1", " ", "b", "y", " ", "B", "2">>,
     <<"s", "u", "m", " ", "o", "f", " ", "A", "1", " ", "t", "o", " ", "A", "2">>, <<"a", "v", "e", "r", "a", "g", "e", " ", "o", "f", " ", "A", "1", " ", "t", "o", " ", "A", "2">>, <<"h", "e", "l", "l", "o">>}

StoreCommands == {<<"=", "A", "1", "+", "B", "2">>, <<"a", "d", "d", " ", "A", "1", " ", "a", "n", "d", " ", "B", "2">>, <<"D", "O", "U", "B", "L", "E", " ", "4">>}

StoreSetCell == writes < MaxStoreWrites /\ SetCellCall(<<"A", "1">>, 10)

SetFormula ==
    \E reference \in StoreRefs, formula \in StoreFormulas :
        SetFormulaCall(reference, formula)

SetFormulaNatural ==
    \E reference \in StoreRefs, natural_text \in NaturalTexts :
        SetFormulaNaturalCall(reference, natural_text)

ApiSetFormula ==
    /\ writes < MaxStoreWrites
    /\ \E formula \in ApiFormulas : ApiSetFormulaCall(<<"C", "1">>, formula)

StoreExecute == \E command \in StoreCommands, rng \in RandomDraws : ExecuteCall(command, rng)

StoreNext ==
    \/ StoreSetCell
    \/ SetFormula
    \/ SetFormulaNatural
    \/ ApiSetFormula
    \/ StoreExecute

\* the inputs of the evaluation: the cells of the end-to-end scenario, and a
\* zero divisor
EvalWrites == {<<<<"A", "1">>, 10>>, <<<<"B", "1">>, 5>>, <<<<"A", "2">>, 20>>, <<<<"B", "1">>, 0>>}

EvalRanges == {<<"A", "1", ":", "A", "1">>, <<"A", "1", ":", "A", "2">>, <<"A", "1", ":", "A", "3">>, <<"A", "2", ":", "A", "2">>, <<"B", "1", ":", "B", "1">>, <<"A", "1", ":", "B", "1">>, <<>>, <<"1", ":", "2">>}

EvalCommands ==
    {<<"=", "A", "1", "+", "B", "1">>, <<"=", "A", "1", "*", "B", "1">>, <<"=", "A", "1", "/", "B", "1">>, <<"=", "A", "2", "-", "A", "1">>, <<"=", "S", "U", "M", "(", "A", "1", ":", "A", "2", ")">>, <<" ", "=", "G", "E", "N", "E", "R", "A", "T", "E", "_", "D", "A", "T", "A", "(", "2", ")">>,
     <<"=", "s", "u", "m", "(", "1", ",", "2", ")">>, <<"=", "N", "A", "T", "U", "R", "A", "L", "(", "a", "d", "d", " ", "A", "1", " ", "a", "n", "d", " ", "B", "1", ")">>, <<"=", "N", "E", "P", "A", "L", "_", "P", "H", "O", "N", "E", "(", ")">>, <<"=", "A", "1", "+">>,
     <<"a", "d", "d", " ", "A", "1", " ", "a", "n", "d", " ", "B", "1">>, <<"D", "O", "U", "B", "L", "E", " ", "4">>, <<"N", "E", "P", "A", "L", "_", "P", "H", "O", "N", "E">>}

EvalSetCell == \E w \in EvalWrites : SetCellCall(w[1], w[2])

SumRange == \E range \in EvalRanges : SumRangeCall(range)

EvalExecute == \E command \in EvalCommands, rng \in RandomDraws : ExecuteCall(command, rng)

EvalNext ==
    \/ EvalSetCell
    \/ SumRange
    \/ EvalExecute

----------------------------------------------------------------------------
(* The computations as a state machine: the slice is drawn at the start and *)
(* one of the functions is applied to it.                                   *)

MaxSumLen == 25

MaxShortLen == 3

\* the slices: every short one over three values, and for every length a
\* slice of equal values, a slice of the values 1, 2, 3, ... and a slice of
\* distinct powers of two, of which every sub-sum is different
SumInputs ==
    UNION {[1..n -> {-1, 2, 5}] : n \in 0..MaxShortLen}
        \cup {[i \in 1..n |-> 7] : n \in 0..MaxSumLen}
        \cup {[i \in 1..n |-> i] : n \in 0..MaxSumLen}
        \cup {[i \in 1..n |-> 2 ^ (i - 1)] : n \in 0..MaxSumLen}

ComputeInit ==
    /\ compute_op = "input"
    /\ compute_data \in SumInputs
    /\ compute_result = NoResult

\* optimized_sum(data)
OptimizedSum ==
    /\ compute_op = "input"
    /\ compute_op' = "optimized_sum"
    /\ compute_result' = optimized_sum(compute_data)
    /\ UNCHANGED compute_data
    /\ UNCHANGED compute_frame

\* benchmark_sum(data)
BenchmarkSum ==
    /\ compute_op = "input"
    /\ compute_op' = "benchmark_sum"
    /\ compute_result' = benchmark_sum(compute_data)
    /\ UNCHANGED compute_data
    /\ UNCHANGED compute_frame

ComputeNext == OptimizedSum \/ BenchmarkSum

----------------------------------------------------------------------------
(* The translator as a state machine: the text is drawn at the start and    *)
(* translate is applied to it.                                              *)

\* the cell references the requests name
TranslateCells == {<<"A", "1">>, <<"B", "2">>, <<"A", "1", "0">>, <<"A", "A", "7">>, <<"f", "6">>}

\* the requests: an opening word or two, a cell, a joining word, a cell
TranslateOpenings ==
    { [opening |-> <<"a", "d", "d">>, joining |-> <<"a", "n", "d">>], [opening |-> <<"s", "u", "m">>, joining |-> <<"a", "n", "d">>],
      [opening |-> <<"p", "l", "u", "s">>, joining |-> <<"a", "n", "d">>], [opening |-> <<"s", "u", "b", "t", "r", "a", "c", "t">>, joining |-> <<"f", "r", "o", "m">>],
      [opening |-> <<"m", "u", "l", "t", "i", "p", "l", "y">>, joining |-> <<"b", "y">>], [opening |-> <<"d", "i", "v", "i", "d", "e">>, joining |-> <<"b", "y">>],
      [opening |-> <<"s", "u", "m", " ", "o", "f">>, joining |-> <<"t", "o">>], [opening |-> <<"a", "v", "e", "r", "a", "g", "e", " ", "o", "f">>, joining |-> <<"t", "o">>] }

TranslateRequests ==
    {[opening |-> o.opening, first |-> x, joining |-> o.joining, second |-> y] :
        o \in TranslateOpenings, x \in TranslateCells, y \in TranslateCells}

\* the text of a request
RequestText(r) == r.opening \o <<" ">> \o r.first \o <<" ">> \o r.joining \o <<" ">> \o r.second

\* the spellings of a text: as written, in uppercase, in lowercase
Spellings(text) == {text, to_uppercase(text), to_lowercase(text)}

\* texts that are no request
OtherTexts ==
    { <<"h", "e", "l", "l", "o", " ", "w", "o", "r", "l", "d">>, <<"w", "h", "a", "t", " ", "i", "s", " ", "t", "h", "e", " ", "w", "e", "a", "t", "h", "e", "r">>, <<>>, <<"a", "d", "d", " ", "A", "1">>, <<"a", "d", "d", " ", "a", "n", "d", " ", "B", "2">>, <<"A", "1", " ", "+", " ", "B", "2">>,
      <<"d", "i", "v", "i", "d", "e", " ", "A", "1", " ", "a", "n", "d", " ", "B", "2">>, <<"s", "u", "b", "t", "r", "a", "c", "t", " ", "A", "1", " ", "a", "n", "d", " ", "B", "2">>, <<"s", "u", "m", " ", "o", "f", " ", "A", "1">>, <<"a", "d", "d", " ", "A", " ", "a", "n", "d", " ", "B">>, <<"a", "d", "d", " ", "1", " ", "a", "n", "d", " ", "2">> }

TranslateInputs == UNION {Spellings(RequestText(r)) : r \in TranslateRequests} \cup OtherTexts

TranslateInit ==
    /\ formula_op = "input"
    /\ formula_text \in TranslateInputs
    /\ formula_result = NoResult
    /\ formula_printed = <<>>

\* translator.translate(text)
Translate ==
    /\ formula_op = "input"
    /\ formula_op' = "translate"
    /\ formula_result' = translate(formula_text)
    /\ UNCHANGED <<formula_text, formula_printed>>
    /\ UNCHANGED formula_frame

TranslateNext == Translate

----------------------------------------------------------------------------
(* The data generator as a state machine: the draws are fixed at the start  *)
(* and one call takes them.                                                 *)

NoDraw == [prefix |-> 0, suffix |-> 0, city |-> 0, gender |-> 0, rng |-> 0]

\* the suffixes drawn from 10000000..=99999999
SuffixDraws == {10000000, 12345678, 99999999}

\* the draws of the generator's calls: gen_range(98..=99), the suffix,
\* gen_range(0..20) and gen_range(0..3)
GeneratorDraws ==
    {[prefix |-> p, suffix |-> s, city |-> c, gender |-> g, rng |-> 0] :
        p \in 98..99, s \in SuffixDraws, c \in 0..(Len(indian_cities) - 1),
        g \in 0..(Len(gender_options) - 1)}

\* the draws of the NEPAL_PHONE operation: gen_range(0..100000000)
OperationDraws ==
    {[prefix |-> 0, suffix |-> 0, city |-> 0, gender |-> 0, rng |-> r] :
        r \in NumberDraws \cup {7, 12345678}}

GeneratorInit ==
    /\ generator_op = "input"
    /\ generator_draw \in GeneratorDraws \cup OperationDraws
    /\ generator_result = NoResult

\* generator.generate_nepal_phone()
GenerateNepalPhone ==
    /\ generator_op = "input"
    /\ generator_draw \in GeneratorDraws
    /\ generator_op' = "generate_nepal_phone"
    /\ generator_result' = [phone |-> generate_nepal_phone(generator_draw)]
    /\ UNCHANGED generator_draw
    /\ UNCHANGED generator_frame

\* generator.generate_record(1): a DataRecord
GenerateRecord ==
    /\ generator_op = "input"
    /\ generator_draw \in GeneratorDraws
    /\ generator_op' = "generate_record"
    /\ generator_result' = generate_record(1, generator_draw)
    /\ UNCHANGED generator_draw
    /\ UNCHANGED generator_frame

\* the NEPAL_PHONE operation of a new registry, executed without arguments
NepalPhoneOperation ==
    /\ generator_op = "input"
    /\ generator_draw \in OperationDraws
    /\ generator_op' = "NEPAL_PHONE"
    /\ generator_result' =
           [phone |-> OperationRegistry_execute(OperationRegistry_new, <<"N", "E", "P", "A", "L", "_", "P", "H", "O", "N", "E">>,
                          <<>>, <<>>,
                          [number |-> generator_draw.rng, records |-> <<>>]).result.val]
    /\ UNCHANGED generator_draw
    /\ UNCHANGED generator_frame

GeneratorNext == GenerateNepalPhone \/ GenerateRecord \/ NepalPhoneOperation

----------------------------------------------------------------------------
(* The registry as a state machine: operations are registered through the  *)
(* API, looked up in the registry, and called by name through execute, as  *)
(* commands and as formulas.                                               *)

\* the names custom operations are registered under: a new name, the name of
\* a builtin, a name in lowercase, and a name that contains "add"
CustomNames == {<<"T", "W", "I", "C", "E">>, <<"D", "O", "U", "B", "L", "E">>, <<"t", "w", "i", "c", "e">>, <<"A", "D", "D", "E", "R">>}

\* the names looked up, registered or not
LookupNames == CustomNames \cup {<<"S", "U", "M">>, <<"A", "V", "E", "R", "A", "G", "E">>, <<"C", "O", "U", "N", "T">>, <<"M", "I", "N">>, <<"M", "A", "X">>, <<"N", "E", "P", "A", "L", "_", "P", "H", "O", "N", "E">>}

\* the commands given to execute: an operation name with arguments
RegistryCommands ==
    { <<"S", "U", "M", " ", "1", " ", "2">>, <<"D", "O", "U", "B", "L", "E", " ", "4">>, <<"D", "O", "U", "B", "L", "E">>, <<"D", "O", "U", "B", "L", "E", " ", "x">>, <<"T", "W", "I", "C", "E", " ", "4">>, <<"T", "W", "I", "C", "E">>, <<"t", "w", "i", "c", "e", " ", "4">>, <<"A", "D", "D", "E", "R", " ", "4">>,
      <<"G", "E", "N", "E", "R", "A", "T", "E", "_", "D", "A", "T", "A", " ", "2">>, <<"N", "E", "P", "A", "L", "_", "P", "H", "O", "N", "E">>, <<"A", "V", "E", "R", "A", "G", "E", " ", "1", " ", "2">>, <<"=", "T", "W", "I", "C", "E", "(", "4", ")">>, <<"=", "D", "O", "U", "B", "L", "E", "(", "4", ")">>, <<"=", "d", "o", "u", "b", "l", "e", "(", "4", ")">>,
      <<"=", "S", "U", "M", "(", "1", ",", "2", ")">>, <<"=", "A", "V", "E", "R", "A", "G", "E", "(", "1", ",", "2", ")">> }

\* one call api.register_operation(name, description, executor)
RegisterOperationCall(name, description, executor) ==
    /\ grid_op' = "register_operation"
    /\ grid_ref' = name
    /\ grid_text' = description
    /\ \E r \in {QuantumAPI_register_operation(operations, name, description, executor)} :
           /\ grid_result' = r.result
           /\ operations' = r.operations
    /\ UNCHANGED <<columns, formulas, written, stored, writes>>
    /\ UNCHANGED grid_frame

\* one call registry.execute(name, grid, args) on the registry of the API
RegistryExecuteCall(name, args, rng) ==
    /\ grid_op' = "registry_execute"
    /\ grid_ref' = name
    /\ grid_text' = <<>>
    /\ \E r \in {OperationRegistry_execute(operations, name, columns, args, rng)} :
           /\ grid_result' = r.result
           /\ columns' = r.columns
    /\ UNCHANGED <<formulas, operations, written, stored, writes>>
    /\ UNCHANGED grid_frame

\* api.register_operation with the closure of the day 5 demo
RegisterOperation ==
    \E name \in CustomNames :
        RegisterOperationCall(name, <<"D", "o", "u", "b", "l", "e", " ", "a", " ", "v", "a", "l", "u", "e">>, "demo_double")

\* registry.execute(name, grid, ["4"])
RegistryExecute ==
    \E name \in LookupNames, rng \in RandomDraws : RegistryExecuteCall(name, <<<<"4">>>>, rng)

\* api.execute(command)
RegistryCommand ==
    \E command \in RegistryCommands, rng \in RandomDraws : ExecuteCall(command, rng)

RegistryNext ==
    \/ RegisterOperation
    \/ RegistryExecute
    \/ RegistryCommand

----------------------------------------------------------------------------
(* The specifications: one per subsystem, the others held idle *)

CodecIdle ==
    /\ codec_op = "idle"
    /\ codec_cell = NoCell
    /\ codec_text = <<>>
    /\ codec_result = NoResult
    /\ codec_printed = <<>>
    /\ codec_upper = NoResult

FormulaIdle ==
    /\ formula_op = "idle"
    /\ formula_text = <<>>
    /\ formula_result = NoResult
    /\ formula_printed = <<>>

ComputeIdle ==
    /\ compute_op = "idle"
    /\ compute_data = <<>>
    /\ compute_result = NoResult

GeneratorIdle ==
    /\ generator_op = "idle"
    /\ generator_draw = NoDraw
    /\ generator_result = NoResult

InitCodec ==
    /\ overflow_checks \in BOOLEAN
    /\ CodecInit
    /\ FormulaIdle
    /\ GridInit
    /\ ComputeIdle
    /\ GeneratorIdle

NextCodec == CodecNext

SpecCodec == InitCodec /\ [][NextCodec]_vars

InitFormula ==
    /\ overflow_checks \in BOOLEAN
    /\ FormulaInit
    /\ CodecIdle
    /\ GridInit
    /\ ComputeIdle
    /\ GeneratorIdle

NextFormula == FormulaNext

SpecFormula == InitFormula /\ [][NextFormula]_vars

Init ==
    /\ overflow_checks \in BOOLEAN
    /\ GridInit
    /\ CodecIdle
    /\ FormulaIdle
    /\ ComputeIdle
    /\ GeneratorIdle

Next == GridNext

Spec == Init /\ [][Next]_vars


NextStore == StoreNext

SpecStore == Init /\ [][NextStore]_vars

NextEval == EvalNext

SpecEval == Init /\ [][NextEval]_vars

InitCompute ==
    /\ overflow_checks \in BOOLEAN
    /\ ComputeInit
    /\ CodecIdle
    /\ FormulaIdle
    /\ GridInit
    /\ GeneratorIdle

NextRegistry == RegistryNext

SpecRegistry == Init /\ [][NextRegistry]_vars

NextCompute == ComputeNext

SpecCompute == InitCompute /\ [][NextCompute]_vars

InitTranslate ==
    /\ overflow_checks \in BOOLEAN
    /\ TranslateInit
    /\ CodecIdle
    /\ GridInit
    /\ ComputeIdle
    /\ GeneratorIdle

NextTranslate == TranslateNext

SpecTranslate == InitTranslate /\ [][NextTranslate]_vars

InitGenerator ==
    /\ overflow_checks \in BOOLEAN
    /\ GeneratorInit
    /\ CodecIdle
    /\ FormulaIdle
    /\ GridInit
    /\ ComputeIdle

NextGenerator == GeneratorNext

SpecGenerator == InitGenerator /\ [][NextGenerator]_vars

----------------------------------------------------------------------------
(* Reference notions for the codec claims, computed on plain integers *)

\* the bijective base-26 value of a run of uppercase letters (Horner form)
RECURSIVE Bijective26(_)
Bijective26(letters) ==
    IF letters = <<>> THEN 0
    ELSE Bijective26(SubSeq(letters, 1, Len(letters) - 1)) * 26
             + (Ord(letters[Len(letters)]) - 64)

\* the value of a run of at most 9 decimal digits
RECURSIVE DecimalValue(_)
DecimalValue(digits) ==
    IF digits = <<>> THEN 0
    ELSE DecimalValue(SubSeq(digits, 1, Len(digits) - 1)) * 10
             + (Ord(digits[Len(digits)]) - 48)

AllDigits(s) == \A i \in 1..Len(s) : is_ascii_digit(s[i])

AllUpper(s) == \A i \in 1..Len(s) : Ord(s[i]) \in 65..90

RECURSIVE StripZeros(_)
StripZeros(digits) ==
    IF digits # <<>> /\ Head(digits) = "0" THEN StripZeros(Tail(digits)) ELSE digits

\* the parts of a reference text: its trimmed form, letter run and remainder
RefLetters(text) == SubSeq(trim(text), 1, LetterRun(trim(text)))

RefRest(text) == SubSeq(trim(text), LetterRun(trim(text)) + 1, Len(trim(text)))

UpperText(s) == [i \in 1..Len(s) |-> to_ascii_uppercase(s[i])]

\* letters followed by digits, nothing else
WellFormedRef(text) ==
    /\ RefLetters(text) # <<>>
    /\ RefRest(text) # <<>>
    /\ AllDigits(RefRest(text))

\* the decimal row of a well-formed text is above the Excel row limit
RowAboveLimit(text) ==
    LET d == StripZeros(RefRest(text))
    IN  Len(d) > 7 \/ (Len(d) = 7 /\ DecimalValue(d) > ExcelMaxRow)

----------------------------------------------------------------------------
(* Claims about the address codec *)

\* C1: for every address with 1 <= row <= 1,048,576 and 1 <= col <= 16,384,
\* parsing the text to_excel produced succeeds and returns exactly that address;
\* the encoded column is a run of letters A..Z whose bijective base-26 value is
\* the column, followed by the decimal row.
C1_AddressRoundTrip ==
    codec_op = "parse_encoded" =>
        /\ codec_result = Ok(codec_cell)
        /\ RefLetters(codec_text) # <<>>
        /\ AllUpper(RefLetters(codec_text))
        /\ Bijective26(RefLetters(codec_text)) = codec_cell.col
        /\ AllDigits(RefRest(codec_text))
        /\ DecimalValue(RefRest(codec_text)) = codec_cell.row

C1_Witness ==
    /\ codec_op = "parse_encoded"
    /\ codec_cell = CellRef_new(ExcelMaxRow, ExcelMaxCol)
    /\ codec_text = <<"X", "F", "D", "1", "0", "4", "8", "5", "7", "6">>
    /\ codec_result.kind = "ok"

C2_Examples ==
    { [text |-> <<"A", "1">>, row |-> 1, col |-> 1],
      [text |-> <<"Z", "2", "6">>, row |-> 26, col |-> 26],
      [text |-> <<"A", "A", "2", "7">>, row |-> 27, col |-> 27],
      [text |-> <<"A", "B", "1", "0", "0">>, row |-> 100, col |-> 28],
      [text |-> <<"X", "F", "D", "1", "0", "4", "8", "5", "7", "6">>,
       row |-> 1048576, col |-> 16384] }

\* C2: CellRef::parse maps the leading letter run to its bijective base-26 value
\* and the trailing digit run to the decimal row: the five listed texts give the
\* listed (row, col), and so does every text of up to 6 letters followed by up
\* to 9 digits with row >= 1.
C2_ParseValues ==
    codec_op = "parse" =>
        /\ \A e \in C2_Examples :
               codec_text = e.text => codec_result = Ok(CellRef_new(e.row, e.col))
        /\ ( /\ WellFormedRef(codec_text)
             /\ Len(RefLetters(codec_text)) <= 6
             /\ Len(RefRest(codec_text)) <= 9
             /\ DecimalValue(RefRest(codec_text)) >= 1 )
           => codec_result =
                 Ok(CellRef_new(DecimalValue(RefRest(codec_text)),
                                Bijective26(UpperText(RefLetters(codec_text)))))

C2_Witness ==
    /\ codec_op = "parse"
    /\ codec_text = <<"A", "B", "1", "0", "0">>
    /\ codec_result = Ok(CellRef_new(100, 28))

\* C3: CellRef::parse succeeds only on letters followed by decimal digits with
\* row >= 1; no leading letters is a missing-column error (the empty text is
\* reported as an empty reference), nothing after the letters is a missing-row
\* error, row 0 is a row-zero error, and any non-digit character in the row
\* part is a malformed-row error.
C3_ParseErrors ==
    codec_op = "parse" =>
        /\ codec_result.kind = "ok" =>
               WellFormedRef(codec_text) /\ StripZeros(RefRest(codec_text)) # <<>>
        /\ RefLetters(codec_text) = <<>> =>
               /\ codec_result.kind = "err"
               /\ codec_result.error \in {"No column letters", "Empty cell reference"}
        /\ (RefLetters(codec_text) # <<>> /\ RefRest(codec_text) = <<>>) =>
               codec_result = Err("No row number")
        /\ (WellFormedRef(codec_text) /\ StripZeros(RefRest(codec_text)) = <<>>) =>
               codec_result = Err("Row number must be at least 1")
        /\ ( /\ RefLetters(codec_text) # <<>>
             /\ RefRest(codec_text) # <<>>
             /\ ~AllDigits(RefRest(codec_text)) )
           => codec_result = Err("Invalid row number")

\* C4: for every well-formed text whose row exceeds 1,048,576, CellRef::parse
\* returns an error.
C4_ParseRejectsRowAboveLimit ==
    (codec_op = "parse" /\ WellFormedRef(codec_text) /\ RowAboveLimit(codec_text))
        => codec_result.kind = "err"

----------------------------------------------------------------------------
(* Reference notions for the formula claims *)

\* the tree of a flat formula under the usual precedence: split at the last
\* additive operator, or at the last operator when all are multiplicative
RECURSIVE PrecedenceTree(_, _)
PrecedenceTree(xs, os) ==
    IF os = <<>> THEN xs[1].expr
    ELSE LET adds == {i \in 1..Len(os) : IsAdditive(os[i].op)}
             k    == IF adds # {}
                     THEN CHOOSE i \in adds : \A j \in adds : j <= i
                     ELSE Len(os)
         IN  Binary(PrecedenceTree(SubSeq(xs, 1, k), SubSeq(os, 1, k - 1)),
                    os[k].op,
                    PrecedenceTree(SubSeq(xs, k + 1, Len(xs)), SubSeq(os, k + 1, Len(os))))

\* the value of a tree of integer literals
RECURSIVE EvalIntegers(_)
EvalIntegers(expr) ==
    CASE expr.tag = "Number" -> IF expr.n.neg THEN 0 - BigValue(expr.n.mant) ELSE BigValue(expr.n.mant)
      [] expr.tag = "Group" -> EvalIntegers(expr.inner)
      [] expr.tag = "Binary" ->
            CASE expr.op = "Add" -> EvalIntegers(expr.left) + EvalIntegers(expr.right)
              [] expr.op = "Subtract" -> EvalIntegers(expr.left) - EvalIntegers(expr.right)
              [] expr.op = "Multiply" -> EvalIntegers(expr.left) * EvalIntegers(expr.right)
              [] expr.op = "Divide" -> EvalIntegers(expr.left) \div EvalIntegers(expr.right)

StripSpaces(s) == SelectSeq(s, LAMBDA c : ~is_whitespace(c))

IsGrammarParse == formula_op \in {"parse_formula_safe", "parse_advanced"}

\* flat formulas with operators of one precedence level only (none included)
OneLevelCases ==
    {c \in FlatCases :
        \/ \A i \in 1..Len(c.os) : IsAdditive(c.os[i].op)
        \/ \A i \in 1..Len(c.os) : ~IsAdditive(c.os[i].op)}

\* formula texts with a cell reference that CellRef::parse cannot decode
UndecodableFormula(t) ==
    \/ t \in TwoLevelFormulas /\ \E i \in 1..(Len(t) - 1) : t[i] = "A" /\ t[i + 1] = "0"
    \/ t \in { <<"=", "A", "4", "2", "9", "4", "9", "6", "7", "2", "9", "6", "*", "2", "+", "2", "*", "2">>, <<"=", "2", "*", "A", "0", "+", "2", "*", "2">>, <<"=", "S", "U", "M", "(", "A", "0", ")">> }

----------------------------------------------------------------------------
(* Claims about the formula parsers *)

\* C5: '=' followed by a single operand, or by operands joined by operators of
\* one precedence level only, parses with the grammar parser (parse_formula_safe,
\* Formula::parse_advanced): the whole input is consumed and that expression is
\* returned.
C5_ZeroOperatorFormulasParse ==
    IsGrammarParse =>
        \A c \in OneLevelCases :
            formula_text = <<"=">> \o FlatText(c.xs, c.os)
                => formula_result = Ok(PrecedenceTree(c.xs, c.os))

\* C6: for every formula of numbers and cell references joined by + - * /, the
\* parser returns the tree in which * and / bind tighter than + and - and equal
\* precedence associates to the left; =2+3*4 is 2+(3*4) and evaluates to 14, and
\* =8-3-2 is (8-3)-2.
C6_PrecedenceAndAssociativity ==
    IsGrammarParse =>
        /\ \A c \in FlatCases :
               (c.os # <<>> /\ formula_text = <<"=">> \o FlatText(c.xs, c.os))
                   => formula_result = Ok(PrecedenceTree(c.xs, c.os))
        /\ formula_text = <<"=", "2", "+", "3", "*", "4">> =>
               formula_result.kind = "ok" /\ EvalIntegers(formula_result.val) = 14
        /\ formula_text = <<"=", "8", "-", "3", "-", "2">> =>
               formula_result.kind = "ok" /\ EvalIntegers(formula_result.val) = 3

\* C7: =F(X:Y) parses to Function(F uppercased, [Range(X, Y)]) for every function
\* name F and cell references X, Y.
C7_RangeArgumentsParse ==
    IsGrammarParse =>
        \A f \in FunctionNames, x \in RangeEnds, y \in RangeEnds :
            formula_text = <<"=">> \o f \o <<"(">> \o x \o <<":">> \o y \o <<")">>
                => /\ CellRef_parse(x).kind = "ok"
                   /\ CellRef_parse(y).kind = "ok"
                   /\ formula_result =
                          Ok(Function(to_uppercase(f),
                                      <<Range(CellRef_parse(x).val, CellRef_parse(y).val)>>))

\* the formula texts of the model that are valid texts of the grammar
ValidFormula(t) ==
    \/ t \in FlatFormulas
    \/ t \in RangeCallFormulas
    \/ t \in TwoLevelFormulas /\ ~UndecodableFormula(t)
    \/ t \in { <<"=", "A", "1", " ", "+", " ", "B", "2">>, <<"=", "(", "A", "1", "+", "B", "2", ")", "*", "2">>, <<"=", "(", "2", "*", "3", "+", "4", "*", "2", ")", "*", "2", "+", "2", "*", "2">>, <<"=", "S", "U", "M", "(", "2", "*", "3", "+", "4", "*", "2", ")", "*", "2", "+", "2", "*", "2">>,
               <<"=", "s", "u", "m", "(", "2", "*", "3", "+", "4", "*", "2", ",", " ", "2", "*", "2", "-", "A", "1", "*", "2", ")", "*", "2", "+", "2", "*", "2">>, <<"=", "2", " ", "*", " ", "2", " ", "-", " ", "2", " ", "/", " ", "2">>, <<"=", "S", "U", "M", "(", "A", "1", ",", " ", "2", ")">> }

\* C8: every valid formula text parses, and printing the result with
\* Formula::to_excel gives the text back up to whitespace, function names in
\* uppercase.
C8_FormulaRoundTrip ==
    /\ (formula_op = "parse_formula_safe" /\ ValidFormula(formula_text))
           => formula_result.kind = "ok"
    /\ (formula_op = "to_excel" /\ ValidFormula(formula_text))
           => StripSpaces(formula_printed) = StripSpaces(to_uppercase(formula_text))

\* C9: a formula with a cell reference that cannot be decoded is an error on
\* every parse path (parse_formula_safe, parse_formula_with_ops); no returned AST
\* has Number(0) in the place of the text that failed to parse.
C9_NoSilentDefault ==
    ( /\ formula_op \in {"parse_formula_safe", "parse_formula_with_ops"}
      /\ UndecodableFormula(formula_text) )
        => formula_result.kind = "err"

----------------------------------------------------------------------------
(* Claims about the grid store *)

\* C10: after any sequence of successful set_cell calls, get_cell(a) returns the
\* value most recently written to address a, for every address a that has been
\* written (a given in its canonical text, such as A1).
C10_GetReturnsLastWritten ==
    ( /\ grid_op = "get_cell"
      /\ CellRef_parse(grid_ref).kind = "ok"
      /\ CellRef_to_excel(CellRef_parse(grid_ref).val) = grid_ref
      /\ CellRef_parse(grid_ref).val \in DOMAIN written )
        => grid_result = Ok(written[CellRef_parse(grid_ref).val])

\* the column of a well-formed text is above the Excel column limit (every run
\* of four or more letters is: AAAA is column 18,279)
ColAboveLimit(text) ==
    \/ Len(RefLetters(text)) > 3
    \/ Bijective26(UpperText(RefLetters(text))) > ExcelMaxCol

\* the text does not decode to an address, or decodes to one outside the limits
RejectedRef(text) ==
    \/ ~WellFormedRef(text)
    \/ StripZeros(RefRest(text)) = <<>>
    \/ RowAboveLimit(text)
    \/ ColAboveLimit(text)

\* C11: in every reachable grid state, get_cell(a) returns an error (never a
\* number, never an implicit zero) for every address a that has never been
\* successfully written by set_cell.
C11_UnboundCellsAreErrors ==
    ( /\ grid_op = "get_cell"
      /\ CellRef_parse(grid_ref).kind = "ok"
      /\ CellRef_parse(grid_ref).val \notin DOMAIN written )
        => grid_result.kind = "err"

\* C12: set_cell with a reference whose row is above 1,048,576 or whose column
\* is above 16,384, or with a reference that does not decode, returns an error
\* and leaves the grid exactly as it was: no column is created, no value is
\* appended, no aggregate and no formula changes.
C12_BoundsEnforcedOnWrite ==
    [][ (grid_op' = "set_cell" /\ RejectedRef(grid_ref'))
            => ( /\ grid_result'.kind = "err"
                 /\ columns' = columns
                 /\ formulas' = formulas ) ]_vars

----------------------------------------------------------------------------
(* Reference notions for the aggregates *)

RECURSIVE SeqSum(_)
SeqSum(data) == IF data = <<>> THEN 0 ELSE Head(data) + SeqSum(Tail(data))

SeqValues(data) == {data[i] : i \in 1..Len(data)}

SeqMin(data) == CHOOSE v \in SeqValues(data) : \A w \in SeqValues(data) : v <= w

SeqMax(data) == CHOOSE v \in SeqValues(data) : \A w \in SeqValues(data) : v >= w

\* the maintained aggregates of a column equal the ones calculate_stats
\* computes from its data, and those are the count, sum, minimum and maximum
AggregatesAgree(column) ==
    LET Agree(stats) ==
            /\ QuantumColumn_count(column) = stats.count
            /\ stats.count = Len(column.data)
            /\ QuantumColumn_sum(column) = stats.sum
            /\ stats.sum = SeqSum(column.data)
            /\ QuantumColumn_average(column) = stats.average
            /\ column.data # <<>> =>
                   /\ QuantumColumn_min(column) = Some(stats.min)
                   /\ QuantumColumn_max(column) = Some(stats.max)
                   /\ stats.min = SeqMin(column.data)
                   /\ stats.max = SeqMax(column.data)
                   /\ stats.average.num * Len(column.data)
                          = stats.average.den * SeqSum(column.data)
            /\ column.data = <<>> => stats.average = Whole(0)
    IN  Agree(calculate_stats(column.data))

\* C16: after any sequence of writes to a column (QuantumColumn::push via
\* set_cell), the maintained aggregates equal the values recomputed from the
\* stored data as calculate_stats does: count = number of stored values, sum =
\* their sum, min and max = their minimum and maximum, average = sum/count (0
\* for an empty column).
C16_AggregateInvariant ==
    /\ AggregatesAgree(QuantumColumn_new)
    /\ \A c \in DOMAIN columns : AggregatesAgree(columns[c])

\* a column that took a larger value and then a smaller one
C16_Witness ==
    /\ grid_op = "set_cell"
    /\ grid_result.kind = "ok"
    /\ \E c \in DOMAIN columns :
           /\ Len(columns[c].data) = 3
           /\ columns[c].data[1] > columns[c].data[2]
           /\ columns[c].data[3] > columns[c].data[2]

----------------------------------------------------------------------------
(* Reference notions for the formula store and the evaluation *)

\* the address a well-formed reference text names
RefAddress(text) ==
    CellRef_new(DecimalValue(StripZeros(RefRest(text))),
                Bijective26(UpperText(RefLetters(text))))

\* the formulas the translator produces for the texts of the model
TranslatedTexts == {translate(t).val : t \in {x \in NaturalTexts : translate(x).some}}

\* the last call succeeded and the formula at the address prints as the text
StoredAs(reference, text) ==
    /\ grid_result.kind = "ok"
    /\ RefAddress(reference) \in DOMAIN formulas
    /\ StripSpaces(Formula_to_excel(formulas[RefAddress(reference)])) = StripSpaces(text)

\* a range text X:Y with two valid addresses
RangeFirst(text) == SubSeq(text, 1, Find(text, ":") - 1)

RangeLast(text) == SubSeq(text, Find(text, ":") + 1, Len(text))

WellFormedRange(text) ==
    /\ Find(text, ":") # 0
    /\ ~RejectedRef(RangeFirst(text))
    /\ ~RejectedRef(RangeLast(text))

Between(x, a, b) == (a <= x /\ x <= b) \/ (b <= x /\ x <= a)

\* the addresses of the range X:Y, both endpoints included
InRange(cell, text) ==
    /\ Between(cell.row, RefAddress(RangeFirst(text)).row, RefAddress(RangeLast(text)).row)
    /\ Between(cell.col, RefAddress(RangeFirst(text)).col, RefAddress(RangeLast(text)).col)

RECURSIVE SumOver(_, _)
SumOver(cells, w) ==
    IF cells = {} THEN 0
    ELSE LET cell == CHOOSE c \in cells : TRUE
         IN  w[cell] + SumOver(cells \ {cell}, w)

\* the sum of the values written to the addresses of the range, unbound ones skipped
RangeSum(w, text) == SumOver({cell \in DOMAIN w : InRange(cell, text)}, w)

\* a range of valid addresses, at least one of them bound
BoundRange(text) ==
    /\ WellFormedRange(text)
    /\ \E cell \in DOMAIN written : InRange(cell, text)

\* the decimal text of a whole number, with or without a fraction part
NumberTexts(n) ==
    LET digits == IF n < 0 THEN <<"-">> \o NatToString(0 - n) ELSE NatToString(n)
    IN  {digits, digits \o <<".", "0">>}

\* a command =X op Y over two valid addresses: the position of its operator
OperatorAt(text) ==
    LET at == {i \in 2..Len(text) : text[i] \in {"+", "-", "*", "/"}}
    IN  IF at = {} THEN 0 ELSE CHOOSE i \in at : \A j \in at : i <= j

LeftOperand(text) == SubSeq(text, 2, OperatorAt(text) - 1)

RightOperand(text) == SubSeq(text, OperatorAt(text) + 1, Len(text))

BinaryCommand(text) ==
    /\ starts_with(text, "=")
    /\ OperatorAt(text) # 0
    /\ ~RejectedRef(LeftOperand(text))
    /\ ~RejectedRef(RightOperand(text))

\* both operands of the command are bound
BoundOperands(text) ==
    /\ RefAddress(LeftOperand(text)) \in DOMAIN written
    /\ RefAddress(RightOperand(text)) \in DOMAIN written

LeftValue(text) == written[RefAddress(LeftOperand(text))]

RightValue(text) == written[RefAddress(RightOperand(text))]

\* the arithmetic result of a binary command whose result is a whole number
Arithmetic(text) ==
    CASE text[OperatorAt(text)] = "+" -> LeftValue(text) + RightValue(text)
      [] text[OperatorAt(text)] = "-" -> LeftValue(text) - RightValue(text)
      [] text[OperatorAt(text)] = "*" -> LeftValue(text) * RightValue(text)
      [] text[OperatorAt(text)] = "/" -> LeftValue(text) \div RightValue(text)

WholeResult(text) ==
    text[OperatorAt(text)] = "/" =>
        /\ RightValue(text) # 0
        /\ LeftValue(text) % RightValue(text) = 0

\* a command =SUM(X:Y) over a range that holds a bound address: the range
SumCommandRange(text) == SubSeq(text, 6, Len(text) - 1)

SumCommand(text) ==
    /\ Len(text) > 6
    /\ SubSeq(text, 1, 5) = <<"=", "S", "U", "M", "(">>
    /\ text[Len(text)] = ")"
    /\ BoundRange(SumCommandRange(text))

----------------------------------------------------------------------------
(* Claims about the formula store *)

\* C13: after set_formula on any address with any formula text
\* (QuantumGrid::set_formula and QuantumAPI::set_formula, whether the call
\* succeeds or fails), every column's stored values and its aggregates (count,
\* sum, min, max) are the same as before the call.
C13_SetFormulaStoresNoValue ==
    [][ grid_op' \in {"set_formula", "api_set_formula"} => columns' = columns ]_vars

\* C14: once set_formula(a, f) has succeeded, address a has a stored formula in
\* every later state; it equals the parse of the latest successful set_formula
\* on a, and it is never removed or altered by set_cell, by a failed
\* set_formula, by set_formula on another address, or by executing commands.
C14_StoredFormulasPersist ==
    /\ DOMAIN formulas = DOMAIN stored
    /\ \A a \in DOMAIN stored : Formula_parse(stored[a]) = Ok(formulas[a])

\* two addresses hold formulas, a value has been written, and the last call
\* was a set_formula that failed on an address that holds a formula
C14_Witness ==
    /\ Cardinality(DOMAIN stored) = 2
    /\ columns # <<>>
    /\ grid_op = "set_formula"
    /\ grid_result.kind = "err"
    /\ CellRef_parse(grid_ref).kind = "ok"
    /\ CellRef_parse(grid_ref).val \in DOMAIN stored

\* C15: for every natural-language text that translate maps to a formula
\* (=X+Y, =X-Y, =X*Y, =X/Y, =SUM(X:Y), =AVERAGE(X:Y)) and every valid address
\* a, set_formula_natural(a, text) and set_formula(a, translated formula)
\* succeed and store at a a formula whose to_excel text equals the translated
\* formula up to whitespace.
C15_TranslatorOutputReenters ==
    /\ ( /\ grid_op = "set_formula_natural"
         /\ translate(grid_text).some
         /\ ~RejectedRef(grid_ref) )
           => StoredAs(grid_ref, translate(grid_text).val)
    /\ ( /\ grid_op = "set_formula"
         /\ grid_text \in TranslatedTexts
         /\ ~RejectedRef(grid_ref) )
           => StoredAs(grid_ref, grid_text)

----------------------------------------------------------------------------
(* Claims about the evaluation *)

\* C17: the sum over a range X:Y (QuantumGrid::sum_range) equals the sum of
\* the values stored at exactly the addresses inside the range, both endpoints
\* included, with unbound addresses inside the range skipped; values stored
\* outside the range (other rows of the same column, other columns) contribute
\* nothing (stated for the ranges that hold at least one bound address).
C17_RangeSum ==
    (grid_op = "sum_range" /\ BoundRange(grid_ref))
        => grid_result = Ok(RangeSum(written, grid_ref))

\* C18: executing a formula evaluates it against the values stored in the grid
\* and returns the numeric result: a binary formula over bound cells yields the
\* arithmetic result of their stored values (=A1+B1 yields 15 and =A1*B1 yields
\* 50 after A1=10, B1=5), and =SUM(X:Y) yields the sum of the range (30 for
\* =SUM(A1:A2) after A1=10, A2=20).
C18_EndToEndEvaluation ==
    grid_op = "execute" =>
        /\ ( /\ BinaryCommand(grid_text)
             /\ BoundOperands(grid_text)
             /\ WholeResult(grid_text) )
               => /\ grid_result.kind = "ok"
                  /\ grid_result.val \in NumberTexts(Arithmetic(grid_text))
        /\ SumCommand(grid_text)
               => /\ grid_result.kind = "ok"
                  /\ grid_result.val
                         \in NumberTexts(RangeSum(written, SumCommandRange(grid_text)))

\* C19: executing =A1/B1 when the value stored at B1 is 0 returns a
\* division-by-zero error, for any value stored at A1; it never returns a
\* success result.
C19_DivisionByZeroIsAnError ==
    ( /\ grid_op = "execute"
      /\ BinaryCommand(grid_text)
      /\ grid_text[OperatorAt(grid_text)] = "/"
      /\ BoundOperands(grid_text)
      /\ RightValue(grid_text) = 0 )
        => grid_result.kind = "err"

\* C20: executing any command that starts with '=' (QuantumAPI::execute ->
\* execute_formula), whether it succeeds or fails and whatever function name
\* it mentions, leaves the grid's columns, aggregates and stored formulas
\* unchanged.
C20_EvaluationIsReadOnly ==
    [][ (grid_op' = "execute" /\ starts_with(trim(grid_text'), "="))
            => (columns' = columns /\ formulas' = formulas) ]_vars

\* a formula that names GENERATE_DATA has been executed on a grid with values
C20_Witness ==
    /\ grid_op = "execute"
    /\ grid_text = <<" ", "=", "G", "E", "N", "E", "R", "A", "T", "E", "_", "D", "A", "T", "A", "(", "2", ")">>
    /\ grid_result.kind = "err"
    /\ columns # <<>>

----------------------------------------------------------------------------
(* Claims about failures *)

\* C22: get_cell returns a value or an error for every reference text (the
\* empty text, a single character, a first character that is not an uppercase
\* letter, a column of several letters); it never aborts
C22_GetCellNeverAborts ==
    grid_op = "get_cell" => grid_result.kind \in {"ok", "err"}

----------------------------------------------------------------------------
(* Claims about the effect of a write *)

\* the column index a successful set_cell(text, _) addressed: col - 1
AddressedColumn(text) == CellRef_parse(text).val.col - 1

\* the number of values a column holds, 0 for a column that does not exist
CountOf(cols, c) == IF c \in DOMAIN cols THEN QuantumColumn_count(cols[c]) ELSE 0

\* the values a column holds, none for a column that does not exist
DataOf(cols, c) == IF c \in DOMAIN cols THEN cols[c].data ELSE <<>>

\* C29: each successful set_cell appends exactly one value to the addressed
\* column and touches nothing else: the count of column col-1 grows by exactly
\* 1, whichever row was named and also when the address was written before;
\* a column exists exactly when a write to it has succeeded; every other
\* column and every formula is unchanged.
C29_SetCellAppendsOne ==
    /\ [] ( /\ DOMAIN columns = {a.col - 1 : a \in DOMAIN written}
            /\ \A c \in DOMAIN columns :
                   CountOf(columns, c) >= Cardinality({a \in DOMAIN written : a.col - 1 = c}) )
    /\ [][ (grid_op' = "set_cell" /\ grid_result'.kind = "ok")
               => ( /\ CountOf(columns', AddressedColumn(grid_ref'))
                           = CountOf(columns, AddressedColumn(grid_ref')) + 1
                    /\ DataOf(columns', AddressedColumn(grid_ref'))
                           = Append(DataOf(columns, AddressedColumn(grid_ref')),
                                    written'[CellRef_parse(grid_ref').val])
                    /\ DOMAIN columns' = DOMAIN columns \cup {AddressedColumn(grid_ref')}
                    /\ \A c \in DOMAIN columns :
                           c # AddressedColumn(grid_ref') => columns'[c] = columns[c]
                    /\ formulas' = formulas ) ]_vars

\* one address written twice: its column holds two values
C29_Witness ==
    /\ grid_op = "set_cell"
    /\ grid_result.kind = "ok"
    /\ Cardinality(DOMAIN written) = 1
    /\ CountOf(columns, AddressedColumn(grid_ref)) = 2

----------------------------------------------------------------------------
(* Claims about the canonical form and the width of the column *)

\* letters in any case followed by a decimal row >= 1 without leading zeros,
\* optionally surrounded by whitespace
CanonicalInput(text) ==
    /\ WellFormedRef(text)
    /\ Head(RefRest(text)) # "0"

\* C23: for every text made of letters in any case followed by a decimal row
\* >= 1 without leading zeros, optionally surrounded by whitespace,
\* CellRef::parse(text).to_excel() is the trimmed text in uppercase, and
\* parsing the text gives what parsing its uppercase form gives.
C23_CanonicalUppercase ==
    (codec_op = "canonical" /\ CanonicalInput(codec_text))
        => /\ codec_result.kind = "ok"
           /\ codec_printed = UpperText(trim(codec_text))
           /\ codec_upper = codec_result

\* the bijective base-26 value of a run of uppercase letters in 16-bit halves
\* (Horner form); hi is 65536 or more exactly when the value does not fit 32 bits
RECURSIVE ColumnHalves(_)
ColumnHalves(letters) ==
    IF letters = <<>> THEN [hi |-> 0, lo |-> 0]
    ELSE LET h  == ColumnHalves(SubSeq(letters, 1, Len(letters) - 1))
             lo == h.lo * 26 + (Ord(letters[Len(letters)]) - 64)
         IN  [hi |-> h.hi * 26 + (lo \div 65536), lo |-> lo % 65536]

\* C30: for every letter run of any length followed by a valid row,
\* CellRef::parse returns the exact bijective base-26 column value or an
\* error: never a column number wrapped modulo 2^32, never an abort on the
\* overflow of digit * 26^i or of the running sum.
C30_ColumnNeverWraps ==
    ( /\ codec_op = "parse"
      /\ WellFormedRef(codec_text)
      /\ StripZeros(RefRest(codec_text)) # <<>>
      /\ ~RowAboveLimit(codec_text) )
        => \/ codec_result.kind = "err"
           \/ /\ codec_result.kind = "ok"
              /\ U32Halves(codec_result.val.col)
                     = ColumnHalves(UpperText(RefLetters(codec_text)))

----------------------------------------------------------------------------
(* Claims about the computations *)

\* C28: optimized_sum(data) equals the plain left-to-right sum of data for
\* every slice: lengths below 8, exact multiples of 8 and lengths that leave a
\* remainder after the chunks of 8; every element is counted exactly once.
C28_OptimizedSumIsSum ==
    /\ compute_op = "optimized_sum" => compute_result = SeqSum(compute_data)
    /\ compute_op = "benchmark_sum" =>
           /\ compute_result.optimized_result = compute_result.scalar_result
           /\ compute_result.scalar_result = SeqSum(compute_data)

\* two whole chunks and a remainder of distinct powers of two
C28_Witness ==
    /\ compute_op = "optimized_sum"
    /\ Len(compute_data) = 19
    /\ compute_data[19] = 2 ^ 18
    /\ compute_result = 2 ^ 19 - 1

----------------------------------------------------------------------------
(* Claims about the translator *)

\* the formula a request stands for: the cells in uppercase, the operands of
\* a subtraction swapped, a range call for "sum of" and "average of"
RequestFormula(r) ==
    LET X == UpperText(r.first)
        Y == UpperText(r.second)
    IN  IF r.opening \in {<<"a", "d", "d">>, <<"s", "u", "m">>, <<"p", "l", "u", "s">>} THEN <<"=">> \o X \o <<"+">> \o Y
        ELSE IF r.opening = <<"s", "u", "b", "t", "r", "a", "c", "t">> THEN <<"=">> \o Y \o <<"-">> \o X
        ELSE IF r.opening = <<"m", "u", "l", "t", "i", "p", "l", "y">> THEN <<"=">> \o X \o <<"*">> \o Y
        ELSE IF r.opening = <<"d", "i", "v", "i", "d", "e">> THEN <<"=">> \o X \o <<"/">> \o Y
        ELSE IF r.opening = <<"s", "u", "m", " ", "o", "f">> THEN <<"=", "S", "U", "M", "(">> \o X \o <<":">> \o Y \o <<")">>
        ELSE <<"=", "A", "V", "E", "R", "A", "G", "E", "(">> \o X \o <<":">> \o Y \o <<")">>

\* C24: translate ignores the letter case of its input and emits uppercase
\* cell references: "add|sum|plus X and Y" gives =X+Y, "subtract Y from X"
\* gives =X-Y, "multiply X by Y" gives =X*Y, "divide X by Y" gives =X/Y,
\* "sum of X to Y" gives =SUM(X:Y), "average of X to Y" gives =AVERAGE(X:Y);
\* a text that matches no pattern gives None.
C24_Translation ==
    formula_op = "translate" =>
        /\ \A r \in TranslateRequests :
               formula_text \in Spellings(RequestText(r))
                   => formula_result = Some(RequestFormula(r))
        /\ formula_text \in OtherTexts => formula_result = None

\* a subtraction spelled in uppercase with two different cells
C24_Witness ==
    /\ formula_op = "translate"
    /\ formula_text = <<"S", "U", "B", "T", "R", "A", "C", "T", " ", "B", "2", " ", "F", "R", "O", "M", " ", "A", "1">>
    /\ formula_result = Some(<<"=", "A", "1", "-", "B", "2">>)

----------------------------------------------------------------------------
(* Claims about the generated data *)

\* C25: every phone number produced by generate_nepal_phone (and therefore
\* every DataRecord.phone) and by the NEPAL_PHONE operation is exactly 10
\* decimal digits in the form 98XXXXXXXX: it always begins with 98.
C25_NepalPhoneFormat ==
    generator_op \in {"generate_nepal_phone", "generate_record", "NEPAL_PHONE"} =>
        /\ Len(generator_result.phone) = 10
        /\ AllDigits(generator_result.phone)
        /\ SubSeq(generator_result.phone, 1, 2) = <<"9", "8">>

----------------------------------------------------------------------------
(* Reference notions for the registry claims *)

\* the words of a command: its text cut at the single spaces
RECURSIVE WordsOf(_)
WordsOf(text) ==
    IF \A i \in 1..Len(text) : text[i] # " " THEN <<text>>
    ELSE LET k == CHOOSE i \in 1..Len(text) :
                      text[i] = " " /\ \A j \in 1..(i - 1) : text[j] # " "
         IN  <<SubSeq(text, 1, k - 1)>> \o WordsOf(SubSeq(text, k + 1, Len(text)))

\* the text is NAME arg1 ... argn, NAME the name of an operation of the registry
OperationCommand(text, registry) ==
    /\ text # <<>>
    /\ Head(text) # "="
    /\ WordsOf(text)[1] \in DOMAIN registry

\* the name of a formula =NAME(arg1, ..., argn), in uppercase
FormulaCallName(text) == UpperText(SubSeq(text, 2, Find(text, "(") - 1))

\* its arguments: the text between the parentheses cut at the commas
FormulaCallArgs(text) ==
    LET pieces == Split(SubSeq(text, Find(text, "(") + 1, Len(text) - 1), ",")
    IN  [i \in 1..Len(pieces) |-> trim(pieces[i])]

\* the text is =NAME(arg1, ..., argn), NAME in any case the name of an
\* operation of the registry
OperationFormula(text, registry) ==
    /\ Len(text) > 3
    /\ Head(text) = "="
    /\ Find(text, "(") > 2
    /\ text[Len(text)] = ")"
    /\ FormulaCallName(text) \in DOMAIN registry

\* the builtins the registry must hold
RequiredBuiltins == {<<"S", "U", "M">>, <<"A", "V", "E", "R", "A", "G", "E">>, <<"C", "O", "U", "N", "T">>, <<"M", "I", "N">>, <<"M", "A", "X">>}

----------------------------------------------------------------------------
(* Claims about the registry *)

\* C21: in every state of a registry created by OperationRegistry::new, also
\* after any number of register calls, the names SUM, AVERAGE, COUNT, MIN and
\* MAX are registered, and looking up a name that is not registered returns
\* an error.
C21_RequiredBuiltins ==
    /\ RequiredBuiltins \subseteq DOMAIN operations
    /\ (grid_op = "registry_execute" /\ grid_ref \notin DOMAIN operations)
           => grid_result.kind = "err"

\* C26: for every operation of the registry (a builtin, or one registered
\* under any name) and every argument list, execute("NAME arg1 ... argn") runs
\* that operation with the arguments and returns exactly what the operation
\* returns, its error included; registering a name again replaces the earlier
\* operation.
C26_OperationsCallableByName ==
    [][ /\ (grid_op' = "execute" /\ OperationCommand(grid_text', operations))
            => \E rng \in RandomDraws :
                   /\ grid_result' = OperationRegistry_execute(operations,
                                         WordsOf(grid_text')[1], columns,
                                         Tail(WordsOf(grid_text')), rng).result
                   /\ columns' = OperationRegistry_execute(operations,
                                     WordsOf(grid_text')[1], columns,
                                     Tail(WordsOf(grid_text')), rng).columns
        /\ grid_op' = "register_operation"
            => /\ DOMAIN operations' = DOMAIN operations \cup {grid_ref'}
               /\ operations'[grid_ref'].description = grid_text'
               /\ operations'[grid_ref'].execute = "demo_double"
               /\ \A name \in DOMAIN operations :
                      name # grid_ref' => operations'[name] = operations[name] ]_vars

\* C27: executing a formula =NAME(arg1, ..., argn) whose NAME, in any letter
\* case, is a registered operation, builtin or registered by the user, calls
\* that operation with the comma-separated arguments and returns its result.
C27_FormulaFunctionDispatch ==
    [][ (grid_op' = "execute" /\ OperationFormula(grid_text', operations))
            => \E rng \in RandomDraws :
                   grid_result' = OperationRegistry_execute(operations,
                                      FormulaCallName(grid_text'), columns,
                                      FormulaCallArgs(grid_text'), rng).result ]_vars

====
